---- MODULE Spec2Model ----
(***************************************************************************)
(* Model of decatholac-mango-tarnished: the core control loop of main.rs   *)
(* (worker tracker, JoinSet of worker tasks, message channel, stored       *)
(* Discord API handle) and the store operations of sqlite.rs as they are   *)
(* used by the Announcer (announcer.rs) and by the Gofers (gofer.rs).      *)
(*                                                                         *)
(* The specifications share the variables:                                 *)
(*   Spec       the core control loop in continuous mode; workers are      *)
(*              tasks that run and end with a result;                      *)
(*   LiveSpec   Spec, with the shutdown after the loop running to its end; *)
(*   StoreSpec  the announce runs and the saves, statement by statement,   *)
(*              against the Servers and Chapters tables;                   *)
(*   BatchSpec  one Announcer worker over two destinations;                *)
(*   GoferSpec  one run_gofer call, fetch by fetch and save by save;       *)
(*   FetchAllSpec  one Gofer worker (dispatch_gofers) over two targets;    *)
(*   OneShotSpec   execute_one_shot of main.rs, statement by statement;    *)
(*   ParseSpec  the parsers of parsers/ (rss.rs, json.rs, html.rs), each   *)
(*              called once with a target and a document of its mode;      *)
(*   EndToEndSpec  a feed channel set in one guild, one Gofer for the RSS  *)
(*              feed of the test of rss.rs and one Announcer after it;     *)
(*   AttemptSpec   one run_gofer call with the parser of its target;       *)
(*   FeedChannelSpec  set_feed_channel calls at once, statement by         *)
(*              statement, while Announcer workers run;                    *)
(*   DeliverySpec  Announcer and SoloAnnouncer workers with the messages   *)
(*              they have sent;                                            *)
(*   CatchUpSpec   Announcer workers again and again while Gofers save,    *)
(*              with no call failing;                                      *)
(*   RestartSpec   the same in a process that is stopped and started;      *)
(*   WatermarkSpec the runs with the watermark write in two steps.         *)
(***************************************************************************)
EXTENDS Integers, Sequences, FiniteSets, Bags, TLC

VARIABLES
    \* ---- core control (main.rs) ----
    core,           \* position of main: "running", "quit", "exited", "failed", "panicked"
    boot,           \* main.rs:164
    trigger_announcer_on_gofer_finish,  \* main.rs:166
    tracker,        \* main.rs:121  Vec<Worker>
    handles,        \* main.rs:122  JoinSet<Handle>: the bag of spawned tasks not yet joined
    finished_handle,\* main.rs:176  what join_next handed out last: <<worker, result>>
    discord_http,   \* main.rs:125  Option<Arc<Http>>: 0 is None, n > 0 the n-th connection's Http
    receiver,       \* main.rs:117  the messages in the channel, oldest first
    bots,           \* number of connect_discord tasks spawned so far
    triggers,       \* number of external events (cron, commands, Ctrl-C, connection losses) so far
    disconnected,   \* main.rs:268  disconnect_discord has been called and has returned
    \* ---- store and announce runs (sqlite.rs, announcer.rs) ----
    now,            \* Utc::now(), in whole ticks
    Servers,        \* the Servers table, rows in rowid order
    Chapters,       \* the Chapters table, rows in rowid order
    runs,           \* the announce_for_server calls not yet joined, with their locals
    batch,          \* dispatch_announcer: "idle", "running"
    saves,          \* number of save_chapters calls made so far
    saved,          \* the last save_chapters call: its argument and its Result
    \* ---- one Gofer (gofer.rs) ----
    gofer,          \* a run_gofer call: its position and its locals
    \* ---- the Gofer worker (gofer.rs) ----
    gofers,         \* gofer.rs:28  the run_gofer tasks spawned by dispatch_gofers, in spawn order
    dispatch,       \* dispatch_gofers: its position and its locals
    finished,       \* gofer.rs:41  the GoferFinished messages sent, oldest first
    \* ---- one-shot mode (main.rs) ----
    one_shot,       \* position of execute_one_shot
    \* ---- the parsers (parsers/rss.rs, json.rs, html.rs) ----
    target,         \* the Target a parser is called with
    source,         \* the document it is called with
    parse_result,   \* what the call gave
    \* ---- what was sent, and the feed channel commands (discord.rs, sqlite.rs) ----
    delivered,      \* the <<guild, title, number>> of every chapter message sent so far
    setting         \* the set_feed_channel calls between their SELECT and their write

coreVars  == <<core, boot, trigger_announcer_on_gofer_finish, tracker, handles,
               finished_handle, discord_http, receiver, bots, triggers, disconnected>>
fetchVars == <<gofers, dispatch, finished>>
\* the variables of the parts that come after run_gofer below
parseVars == <<target, source, parse_result>>
\* the variables of the parts that come last: deliveries and feed channel calls
moreVars  == <<delivered, setting>>
otherVars == <<fetchVars, one_shot, parseVars, moreVars>>
storeVars == <<now, Servers, Chapters, runs, batch, saves, saved, gofer, otherVars>>
vars      == <<core, boot, trigger_announcer_on_gofer_finish, tracker, handles,
               finished_handle, discord_http, receiver, bots, triggers, disconnected,
               now, Servers, Chapters, runs, batch, saves, saved, gofer,
               gofers, dispatch, finished, one_shot, target, source, parse_result,
               delivered, setting>>

(***************************************************************************)
(* Bounds.                                                                 *)
(***************************************************************************)
\* External events (cron firings, slash commands, Ctrl-C, losses of the
\* Discord connection) in one behaviour.
MaxTriggers == 2
\* The clock runs from 0 to MaxTime.
MaxTime == 2
\* save_chapters calls made in one behaviour.
MaxSaves == 2

(***************************************************************************)
(* structs.rs: Server, and Worker of main.rs.                              *)
(***************************************************************************)
NoServer == [identifier |-> "", feed_channel_identifier |-> ""]

\* The Server values a /announce command can carry (get_server of the guild
\* the command came from): two guilds, one of them seen with two channels.
ServerValues ==
    { [identifier |-> "g1", feed_channel_identifier |-> "c1"],
      [identifier |-> "g1", feed_channel_identifier |-> "c2"],
      [identifier |-> "g2", feed_channel_identifier |-> "c1"] }

\* Mutant: a derived PartialEq, which compares every field.
ServerEqDerived(a, b) == a = b

\* impl PartialEq for Server: the identifier alone.
ServerEq(a, b) == a.identifier = b.identifier

Gofer == [kind |-> "Gofer", server |-> NoServer]
Announcer == [kind |-> "Announcer", server |-> NoServer]
DiscordBot == [kind |-> "DiscordBot", server |-> NoServer]
SoloAnnouncer(server) == [kind |-> "SoloAnnouncer", server |-> server]

\* Mutant: the variant alone.
WorkerEqByVariant(a, b) == a.kind = b.kind

\* #[derive(PartialEq)] on Worker: same variant, and equal payloads.
WorkerEq(a, b) ==
    /\ a.kind = b.kind
    /\ (a.kind = "SoloAnnouncer" => ServerEq(a.server, b.server))

(***************************************************************************)
(* CoreMessage.                                                            *)
(***************************************************************************)
StartGofer(b) == [type |-> "StartGofer", flag |-> b, server |-> NoServer, http |-> 0]
StartAnnouncer == [type |-> "StartAnnouncer", flag |-> FALSE, server |-> NoServer, http |-> 0]
StartSoloAnnouncer(s) == [type |-> "StartSoloAnnouncer", flag |-> FALSE, server |-> s, http |-> 0]
StartDiscordBot == [type |-> "StartDiscordBot", flag |-> FALSE, server |-> NoServer, http |-> 0]
TransferDiscordHttp(h) == [type |-> "TransferDiscordHttp", flag |-> FALSE, server |-> NoServer, http |-> h]
Quit == [type |-> "Quit", flag |-> FALSE, server |-> NoServer, http |-> 0]

(***************************************************************************)
(* The tracker.  An index is 1-based; 0 stands for None.                   *)
(***************************************************************************)
get_tracker_index(tr, find) ==
    IF \E i \in 1..Len(tr) : WorkerEq(tr[i], find)
    THEN CHOOSE i \in 1..Len(tr) :
            /\ WorkerEq(tr[i], find)
            /\ \A j \in 1..(i - 1) : ~WorkerEq(tr[j], find)
    ELSE 0

add_tracker(tr, worker) == Append(tr, worker)

RemoveAt(s, i) == SubSeq(s, 1, i - 1) \o SubSeq(s, i + 1, Len(s))
Range(s) == {s[i] : i \in 1..Len(s)}

\* Mutant: the tracker is left as it is.
remove_tracker_nothing(tr, worker) == tr

remove_tracker(tr, worker) ==
    LET index == get_tracker_index(tr, worker)
    IN  IF index = 0 THEN tr ELSE RemoveAt(tr, index)

(***************************************************************************)
(* Tasks of the JoinSet.  state: "connecting" (connect_discord before its  *)
(* setup callback), "running", "done" (ended, not yet joined).  conn is    *)
(* the connection number of a connect_discord task, 0 for the others.      *)
(* join_next hands out a task's end as "ok" or "err" (the Result of its    *)
(* Handle) or as "panic" (a JoinError).                                    *)
(***************************************************************************)
Task(worker, state, conn) == [worker |-> worker, state |-> state, conn |-> conn]
Finished(t) == t.state = "done"
Outcomes == {"ok", "err", "panic"}
NoHandle == <<>>
\* saved before the first save_chapters call
NoSave == [chapters |-> <<>>, ok |-> TRUE]
\* No run_gofer call has been made.
NoGofer == [pc |-> "idle", attempts |-> 0, some |-> FALSE, chapters |-> <<>>, fetches |-> 0]
\* No parser has been called.
NoTarget == [mode |-> "None"]
NoSource == [mode |-> "None"]
NotParsed == [status |-> "none", chapters |-> <<>>]
\* dispatch_gofers has not been called.
NoDispatch == [pc |-> "idle", next |-> 0, triggers_announcer |-> FALSE]
\* The parts that come after run_gofer below, before they have run.
OthersIdle ==
    /\ gofers = <<>>
    /\ dispatch = NoDispatch
    /\ finished = <<>>
    /\ one_shot = "idle"
    /\ target = NoTarget
    /\ source = NoSource
    /\ parse_result = NotParsed
    /\ delivered = {}
    /\ setting = <<>>

Spawn(hs, t) == hs (+) SetToBag({t})
Joined(hs, t) == hs (-) SetToBag({t})
SetState(hs, t, state) == Spawn(Joined(hs, t), [t EXCEPT !.state = state])
Tasks == BagToSet(handles)

\* What a start_* function returns: the Result, and the tracker and JoinSet
\* as it leaves them.
Started(ok, tr, hs) == [ok |-> ok, tracker |-> tr, handles |-> hs]

start_discord_bot(tr, hs, conn) ==
    IF get_tracker_index(tr, DiscordBot) # 0
    THEN Started(FALSE, tr, hs)
    ELSE Started(TRUE, add_tracker(tr, DiscordBot),
                 Spawn(hs, Task(DiscordBot, "connecting", conn)))

start_gofer(tr, hs) ==
    IF get_tracker_index(tr, Gofer) # 0
    THEN Started(FALSE, tr, hs)
    ELSE Started(TRUE, add_tracker(tr, Gofer), Spawn(hs, Task(Gofer, "running", 0)))

\* Mutant: no check of the stored Http.
start_announcer_without_http(tr, hs, http, server) ==
    LET worker == IF server = NoServer THEN Announcer ELSE SoloAnnouncer(server)
    IN  IF get_tracker_index(tr, worker) # 0
        THEN Started(FALSE, tr, hs)
        ELSE Started(TRUE, add_tracker(tr, worker), Spawn(hs, Task(worker, "running", 0)))

\* server is NoServer for the None of Option<Server>.
start_announcer(tr, hs, http, server) ==
    LET worker == IF server = NoServer THEN Announcer ELSE SoloAnnouncer(server)
    IN  IF http = 0
        THEN Started(FALSE, tr, hs)
        ELSE IF get_tracker_index(tr, worker) # 0
        THEN Started(FALSE, tr, hs)
        ELSE Started(TRUE, add_tracker(tr, worker), Spawn(hs, Task(worker, "running", 0)))

(***************************************************************************)
(* main: the loop of continuous mode.                                      *)
(***************************************************************************)
Looping == core = "running" /\ ~boot

\* The select! is biased: the message branch runs only when join_next has
\* no finished task to hand out.
NoneFinished == \A t \in Tasks : ~Finished(t)

\* main.rs:169-173
Boot ==
    /\ core = "running" /\ boot
    /\ receiver' = receiver \o <<StartGofer(TRUE), StartDiscordBot>>
    /\ boot' = FALSE
    /\ UNCHANGED <<core, trigger_announcer_on_gofer_finish, tracker, handles,
                   finished_handle, discord_http, bots, triggers>>
    /\ UNCHANGED disconnected
    /\ UNCHANGED storeVars

\* main.rs:176-201
JoinNext ==
    /\ Looping
    /\ \E t \in Tasks, result \in Outcomes :
        /\ Finished(t)
        /\ LET worker == t.worker
               chain == worker = Gofer /\ trigger_announcer_on_gofer_finish
           IN  /\ handles' = Joined(handles, t)
               /\ finished_handle' = <<worker, result>>
               /\ IF result = "panic"
                  THEN UNCHANGED <<tracker, trigger_announcer_on_gofer_finish,
                                   discord_http, receiver>>
                  ELSE /\ tracker' = remove_tracker(tracker, worker)
                       /\ trigger_announcer_on_gofer_finish' =
                             IF chain THEN FALSE ELSE trigger_announcer_on_gofer_finish
                       /\ discord_http' = IF worker = DiscordBot THEN 0 ELSE discord_http
                       /\ receiver' = receiver
                             \o (IF chain THEN <<StartAnnouncer>> ELSE <<>>)
                             \o (IF worker = DiscordBot THEN <<StartDiscordBot>> ELSE <<>>)
    /\ UNCHANGED <<core, boot, bots, triggers>>
    /\ UNCHANGED disconnected
    /\ UNCHANGED storeVars

\* The message branch took a message of this type off the channel.
Receives(type) ==
    /\ Looping
    /\ NoneFinished
    /\ receiver # <<>>
    /\ Head(receiver).type = type
    /\ receiver' = Tail(receiver)

\* The ? after a start_* call: an Err ends main with that error.
AfterStart(r) ==
    /\ tracker' = r.tracker
    /\ handles' = r.handles
    /\ core' = IF r.ok THEN "running" ELSE "failed"

\* main.rs:211-220
RecvStartGofer ==
    /\ Receives("StartGofer")
    /\ LET r == start_gofer(tracker, handles)
       IN  /\ AfterStart(r)
           /\ trigger_announcer_on_gofer_finish' =
                 IF r.ok THEN Head(receiver).flag ELSE trigger_announcer_on_gofer_finish
    /\ UNCHANGED <<boot, finished_handle, discord_http, bots, triggers>>
    /\ UNCHANGED disconnected
    /\ UNCHANGED storeVars

\* main.rs:221-229
RecvStartAnnouncer ==
    /\ Receives("StartAnnouncer")
    /\ AfterStart(start_announcer(tracker, handles, discord_http, NoServer))
    /\ UNCHANGED <<boot, trigger_announcer_on_gofer_finish, finished_handle, discord_http,
                   bots, triggers>>
    /\ UNCHANGED disconnected
    /\ UNCHANGED storeVars

\* main.rs:230-238
RecvStartSoloAnnouncer ==
    /\ Receives("StartSoloAnnouncer")
    /\ AfterStart(start_announcer(tracker, handles, discord_http, Head(receiver).server))
    /\ UNCHANGED <<boot, trigger_announcer_on_gofer_finish, finished_handle, discord_http,
                   bots, triggers>>
    /\ UNCHANGED disconnected
    /\ UNCHANGED storeVars

\* main.rs:239-247
RecvStartDiscordBot ==
    /\ Receives("StartDiscordBot")
    /\ LET r == start_discord_bot(tracker, handles, bots + 1)
       IN  /\ AfterStart(r)
           /\ bots' = IF r.ok THEN bots + 1 ELSE bots
    /\ UNCHANGED <<boot, trigger_announcer_on_gofer_finish, finished_handle, discord_http,
                   triggers>>
    /\ UNCHANGED disconnected
    /\ UNCHANGED storeVars

\* main.rs:248-251
RecvTransferDiscordHttp ==
    /\ Receives("TransferDiscordHttp")
    /\ discord_http' = Head(receiver).http
    /\ UNCHANGED <<core, boot, trigger_announcer_on_gofer_finish, tracker, handles,
                   finished_handle, bots, triggers>>
    /\ UNCHANGED disconnected
    /\ UNCHANGED storeVars

\* main.rs:252-254
RecvQuit ==
    /\ Receives("Quit")
    /\ core' = "quit"
    /\ UNCHANGED <<boot, trigger_announcer_on_gofer_finish, tracker, handles,
                   finished_handle, discord_http, bots, triggers>>
    /\ UNCHANGED disconnected
    /\ UNCHANGED storeVars

\* Mutant: the tasks are left running.
ShutdownWithoutAbort ==
    /\ core = "quit"
    /\ core' = IF get_tracker_index(tracker, DiscordBot) # 0 /\ discord_http = 0
               THEN "panicked" ELSE "exited"
    /\ disconnected' = (get_tracker_index(tracker, DiscordBot) # 0 /\ discord_http # 0)
    /\ UNCHANGED <<boot, trigger_announcer_on_gofer_finish, tracker, handles,
                   finished_handle, discord_http, receiver, bots, triggers>>
    /\ UNCHANGED storeVars

\* main.rs:260-272: abort_all and the join of every aborted task, then
\* disconnect_discord (which returns Ok whatever its requests do) when the
\* tracker holds DiscordBot; discord_http.as_ref().unwrap() panics on None.
Shutdown ==
    /\ core = "quit"
    /\ handles' = EmptyBag
    /\ core' = IF get_tracker_index(tracker, DiscordBot) # 0 /\ discord_http = 0
               THEN "panicked" ELSE "exited"
    /\ disconnected' = (get_tracker_index(tracker, DiscordBot) # 0 /\ discord_http # 0)
    /\ UNCHANGED <<boot, trigger_announcer_on_gofer_finish, tracker, finished_handle,
                   discord_http, receiver, bots, triggers>>
    /\ UNCHANGED storeVars

(***************************************************************************)
(* The senders outside the loop.                                           *)
(***************************************************************************)
Alive == core = "running"

\* WorkerCron::handle, main.rs:69-76; the runner runs from main.rs:152 on.
CronFires ==
    /\ Alive /\ triggers < MaxTriggers
    /\ receiver' = Append(receiver, StartGofer(TRUE))
    /\ triggers' = triggers + 1
    /\ UNCHANGED <<core, boot, trigger_announcer_on_gofer_finish, tracker, handles,
                   finished_handle, discord_http, bots>>
    /\ UNCHANGED disconnected
    /\ UNCHANGED storeVars

\* The ctrlc handler, main.rs:155-161.
CtrlC ==
    /\ Alive /\ triggers < MaxTriggers
    /\ receiver' = Append(receiver, Quit)
    /\ triggers' = triggers + 1
    /\ UNCHANGED <<core, boot, trigger_announcer_on_gofer_finish, tracker, handles,
                   finished_handle, discord_http, bots>>
    /\ UNCHANGED disconnected
    /\ UNCHANGED storeVars

\* A connect_discord task past its setup callback serves the slash commands.
Connected == \E t \in Tasks : t.worker = DiscordBot /\ t.state = "running"

\* /fetch, discord.rs:65-70.
CommandFetch ==
    /\ Alive /\ Connected /\ triggers < MaxTriggers
    /\ \E b \in BOOLEAN : receiver' = Append(receiver, StartGofer(b))
    /\ triggers' = triggers + 1
    /\ UNCHANGED <<core, boot, trigger_announcer_on_gofer_finish, tracker, handles,
                   finished_handle, discord_http, bots>>
    /\ UNCHANGED disconnected
    /\ UNCHANGED storeVars

\* /announce, discord.rs:73-88.
CommandAnnounce ==
    /\ Alive /\ Connected /\ triggers < MaxTriggers
    /\ \E s \in ServerValues : receiver' = Append(receiver, StartSoloAnnouncer(s))
    /\ triggers' = triggers + 1
    /\ UNCHANGED <<core, boot, trigger_announcer_on_gofer_finish, tracker, handles,
                   finished_handle, discord_http, bots>>
    /\ UNCHANGED disconnected
    /\ UNCHANGED storeVars

(***************************************************************************)
(* The worker tasks, seen from the loop.                                   *)
(***************************************************************************)
\* The setup callback of connect_discord, discord.rs:39-57.
BotSetup ==
    /\ Alive
    /\ \E t \in Tasks :
        /\ t.worker = DiscordBot /\ t.state = "connecting"
        /\ handles' = SetState(handles, t, "running")
        /\ receiver' = Append(receiver, TransferDiscordHttp(t.conn))
    /\ UNCHANGED <<core, boot, trigger_announcer_on_gofer_finish, tracker,
                   finished_handle, discord_http, bots, triggers>>
    /\ UNCHANGED disconnected
    /\ UNCHANGED storeVars

\* framework.run() returns, discord.rs:59-61: the connection was lost.
BotEnds ==
    /\ Alive /\ triggers < MaxTriggers
    /\ \E t \in Tasks :
        /\ t.worker = DiscordBot
        /\ t.state \in {"connecting", "running"}
        /\ handles' = SetState(handles, t, "done")
    /\ triggers' = triggers + 1
    /\ UNCHANGED <<core, boot, trigger_announcer_on_gofer_finish, tracker,
                   finished_handle, discord_http, receiver, bots>>
    /\ UNCHANGED disconnected
    /\ UNCHANGED storeVars

\* dispatch_gofers, dispatch_announcer or dispatch_solo_announcer returns.
WorkerEnds ==
    /\ Alive
    /\ \E t \in Tasks :
        /\ t.worker # DiscordBot
        /\ t.state = "running"
        /\ handles' = SetState(handles, t, "done")
    /\ UNCHANGED <<core, boot, trigger_announcer_on_gofer_finish, tracker,
                   finished_handle, discord_http, receiver, bots, triggers>>
    /\ UNCHANGED disconnected
    /\ UNCHANGED storeVars

(***************************************************************************)
(* Initial states.                                                         *)
(***************************************************************************)
CoreInit ==
    /\ core = "running"
    /\ boot = TRUE
    /\ trigger_announcer_on_gofer_finish = FALSE
    /\ tracker = <<>>
    /\ handles = EmptyBag
    /\ finished_handle = NoHandle
    /\ discord_http = 0
    /\ receiver = <<>>
    /\ bots = 0
    /\ triggers = 0
    /\ disconnected = FALSE

StoreIdle ==
    /\ now = 0
    /\ Servers = <<>>
    /\ Chapters = <<>>
    /\ runs = <<>>
    /\ batch = "idle"
    /\ saves = 0
    /\ saved = NoSave
    /\ gofer = NoGofer
    /\ OthersIdle

Init == CoreInit /\ StoreIdle

Next ==
    \/ Boot
    \/ JoinNext
    \/ RecvStartGofer
    \/ RecvStartAnnouncer
    \/ RecvStartSoloAnnouncer
    \/ RecvStartDiscordBot
    \/ RecvTransferDiscordHttp
    \/ RecvQuit
    \/ Shutdown
    \/ CronFires
    \/ CtrlC
    \/ CommandFetch
    \/ CommandAnnounce
    \/ BotSetup
    \/ BotEnds
    \/ WorkerEnds

Spec == Init /\ [][Next]_vars

\* After the break main runs straight to its end (main.rs:260-272): no
\* message or task is waited for other than the aborted tasks themselves.
LiveSpec == Init /\ [][Next]_vars /\ WF_vars(Shutdown)

(***************************************************************************)
(* main.rs:386-495: execute_one_shot.  It takes over tracker, handles and  *)
(* receiver of main.  one_shot is "idle" (not called), "await_http" (in    *)
(* the loop that awaits the Discord API), "await_gofer" and                *)
(* "await_announcer" (in await_handle!), "disconnect" (in                  *)
(* disconnect_discord), "ok" or "err" (returned).  The cron runner and the *)
(* Ctrl-C handler are not set up in this mode; the tasks and the slash     *)
(* commands are those of continuous mode.                                  *)
(***************************************************************************)
\* What one-shot mode leaves alone.
notOneShot == <<now, Servers, Chapters, runs, batch, saves, saved, gofer, fetchVars,
                parseVars, moreVars>>

\* bail! or `?` in execute_one_shot: main logs and returns the Err
\* (main.rs:137-140); the JoinSet is dropped and its tasks are aborted.
Bail ==
    /\ one_shot' = "err"
    /\ core' = "failed"
    /\ handles' = EmptyBag

\* main.rs:400-407
OneShotStarts ==
    /\ core = "running" /\ one_shot = "idle"
    /\ LET r == start_discord_bot(tracker, handles, bots + 1)
       IN  /\ tracker' = r.tracker
           /\ handles' = r.handles
           /\ bots' = bots + 1
           /\ one_shot' = IF r.ok THEN "await_http" ELSE "err"
           /\ core' = IF r.ok THEN "running" ELSE "failed"
    /\ UNCHANGED <<boot, trigger_announcer_on_gofer_finish, finished_handle,
                   discord_http, receiver, triggers, disconnected>>
    /\ UNCHANGED notOneShot

\* main.rs:412-424 and, after the break, 468-474: a message is taken.
\* TransferDiscordHttp is stored and the Gofer is started; any other
\* message is dropped.
OneShotRecv ==
    /\ core = "running" /\ one_shot = "await_http"
    /\ receiver # <<>>
    /\ receiver' = Tail(receiver)
    /\ IF Head(receiver).type = "TransferDiscordHttp"
       THEN /\ discord_http' = Head(receiver).http
            /\ LET r == start_gofer(tracker, handles)
               IN  /\ tracker' = r.tracker
                   /\ one_shot' = IF r.ok THEN "await_gofer" ELSE "err"
                   /\ core' = IF r.ok THEN "running" ELSE "failed"
                   /\ handles' = IF r.ok THEN r.handles ELSE EmptyBag
       ELSE UNCHANGED <<discord_http, tracker, handles, one_shot, core>>
    /\ UNCHANGED <<boot, trigger_announcer_on_gofer_finish, finished_handle,
                   bots, triggers, disconnected>>
    /\ UNCHANGED notOneShot

\* main.rs:426-438: a task ends while the Discord API is awaited.  Every
\* outcome is an error.
OneShotBotDied ==
    /\ core = "running" /\ one_shot = "await_http"
    /\ \E t \in Tasks, result \in Outcomes :
        /\ Finished(t)
        /\ finished_handle' = <<t.worker, result>>
    /\ Bail
    /\ UNCHANGED <<boot, trigger_announcer_on_gofer_finish, tracker,
                   discord_http, receiver, bots, triggers, disconnected>>
    /\ UNCHANGED notOneShot

\* Mutant: the loop is left when any worker has ended.
AwaitOutcomeOfAny(worker, result, awaited) ==
    IF result = "panic" THEN "bail" ELSE "break"

\* main.rs:443-463, the body of await_handle!($arg) for one finished
\* handle: what the loop does next.  The Result in the Handle is not read.
AwaitOutcome(worker, result, awaited) ==
    IF result = "panic" THEN "bail"
    ELSE IF WorkerEq(worker, awaited) THEN "break"
    ELSE IF WorkerEq(worker, DiscordBot) THEN "bail"
    ELSE "continue"

\* main.rs:475 and 476-484: await_handle!(Worker::Gofer) hands out a task;
\* on the break the Announcer is started.
OneShotAwaitGofer ==
    /\ core = "running" /\ one_shot = "await_gofer"
    /\ \E t \in Tasks, result \in Outcomes :
        /\ Finished(t)
        /\ finished_handle' = <<t.worker, result>>
        /\ LET outcome == AwaitOutcome(t.worker, result, Gofer)
               r == start_announcer(tracker, Joined(handles, t), discord_http, NoServer)
           IN  IF outcome = "bail" \/ (outcome = "break" /\ ~r.ok)
               THEN Bail /\ UNCHANGED tracker
               ELSE IF outcome = "break"
               THEN /\ tracker' = r.tracker
                    /\ handles' = r.handles
                    /\ one_shot' = "await_announcer"
                    /\ core' = "running"
               ELSE /\ handles' = Joined(handles, t)
                    /\ UNCHANGED <<tracker, one_shot, core>>
    /\ UNCHANGED <<boot, trigger_announcer_on_gofer_finish, discord_http, receiver,
                   bots, triggers, disconnected>>
    /\ UNCHANGED notOneShot

\* main.rs:485: await_handle!(Worker::Announcer) hands out a task; on the
\* break disconnect_discord is called.
OneShotAwaitAnnouncer ==
    /\ core = "running" /\ one_shot = "await_announcer"
    /\ \E t \in Tasks, result \in Outcomes :
        /\ Finished(t)
        /\ finished_handle' = <<t.worker, result>>
        /\ LET outcome == AwaitOutcome(t.worker, result, Announcer)
           IN  IF outcome = "bail"
               THEN Bail
               ELSE /\ handles' = Joined(handles, t)
                    /\ one_shot' = IF outcome = "break" THEN "disconnect" ELSE one_shot
                    /\ core' = "running"
    /\ UNCHANGED <<boot, trigger_announcer_on_gofer_finish, tracker, discord_http,
                   receiver, bots, triggers, disconnected>>
    /\ UNCHANGED notOneShot

\* main.rs:487-495: disconnect_discord returns (always Ok, discord.rs:138-
\* 163), execute_one_shot returns Ok(()) and main returns.
OneShotDisconnect ==
    /\ core = "running" /\ one_shot = "disconnect"
    /\ disconnected' = TRUE
    /\ one_shot' = "ok"
    /\ core' = "exited"
    /\ handles' = EmptyBag
    /\ UNCHANGED <<boot, trigger_announcer_on_gofer_finish, tracker, finished_handle,
                   discord_http, receiver, bots, triggers>>
    /\ UNCHANGED notOneShot

OneShotInit == CoreInit /\ StoreIdle

OneShotNext ==
    \/ OneShotStarts
    \/ OneShotRecv
    \/ OneShotBotDied
    \/ OneShotAwaitGofer
    \/ OneShotAwaitAnnouncer
    \/ OneShotDisconnect
    \/ CommandFetch
    \/ CommandAnnounce
    \/ BotSetup
    \/ BotEnds
    \/ WorkerEnds

\* One-shot mode; disconnect_discord, once called, returns.
OneShotSpec == OneShotInit /\ [][OneShotNext]_vars /\ WF_vars(OneShotDisconnect)

(***************************************************************************)
(* sqlite.rs: the tables and the statements on them.  Every function takes *)
(* the connection mutex for its statements, so each is one atomic step;    *)
(* get_unnanounced_chapters takes it twice (get_last_announced_time, then  *)
(* the SELECT).  A result is a record with ok = FALSE for an Err.          *)
(***************************************************************************)
ServerRow(g, c, t) ==
    [guildId |-> g, channelId |-> c, lastAnnouncedAt |-> t, isAnnouncing |-> FALSE]

ChapterRow(ch, t) ==
    [manga |-> ch.manga, title |-> ch.title, number |-> ch.number, url |-> ch.url,
     date |-> ch.date, loggedAt |-> t, announcedAt |-> ch.announced_at]

RowsOf(tbl, g) == {k \in 1..Len(tbl) : tbl[k].guildId = g}
FirstRow(tbl, g) == CHOOSE k \in RowsOf(tbl, g) : \A j \in RowsOf(tbl, g) : k <= j

\* SELECT isAnnouncing FROM Servers WHERE guildId = :g (query_row: the first row)
get_announcing_server_flag(tbl, g) ==
    IF RowsOf(tbl, g) = {}
    THEN [ok |-> FALSE, value |-> FALSE]
    ELSE [ok |-> TRUE, value |-> tbl[FirstRow(tbl, g)].isAnnouncing]

\* UPDATE Servers SET isAnnouncing = :s WHERE guildId = :g; Err when no row changed
set_announcing_server_flag(tbl, g, announcing) ==
    [ok |-> RowsOf(tbl, g) # {},
     table |-> [k \in 1..Len(tbl) |->
                  IF tbl[k].guildId = g
                  THEN [tbl[k] EXCEPT !.isAnnouncing = announcing]
                  ELSE tbl[k]]]

\* SELECT lastAnnouncedAt FROM Servers WHERE guildId = ?1
get_last_announced_time(tbl, g) ==
    IF RowsOf(tbl, g) = {}
    THEN [ok |-> FALSE, value |-> 0]
    ELSE [ok |-> TRUE, value |-> tbl[FirstRow(tbl, g)].lastAnnouncedAt]

\* UPDATE Servers SET lastAnnouncedAt = ?1 WHERE guildId = ?2
set_last_announced_time(tbl, g, last_announced_at) ==
    [ok |-> RowsOf(tbl, g) # {},
     table |-> [k \in 1..Len(tbl) |->
                  IF tbl[k].guildId = g
                  THEN [tbl[k] EXCEPT !.lastAnnouncedAt = last_announced_at]
                  ELSE tbl[k]]]

\* SELECT guildId, channelId FROM Servers
get_servers(tbl) ==
    [k \in 1..Len(tbl) |->
        [identifier |-> tbl[k].guildId, feed_channel_identifier |-> tbl[k].channelId]]

\* Mutant: a window closed at the watermark.
UnannouncedSince(tbl, last_announced_at, t) ==
    {k \in 1..Len(tbl) :
        tbl[k].announcedAt >= last_announced_at /\ t >= tbl[k].announcedAt}

\* WHERE announcedAt > ?1 AND ?2 >= announcedAt
Unannounced(tbl, last_announced_at, t) ==
    {k \in 1..Len(tbl) :
        tbl[k].announcedAt > last_announced_at /\ t >= tbl[k].announcedAt}

\* ORDER BY date ASC: the rows in `rows`, each once, in an order ascending
\* in date; SQL leaves the order of rows with equal dates open.
OrderedByDate(tbl, rows) ==
    {s \in [1..Cardinality(rows) -> rows] :
        /\ \A x, y \in 1..Cardinality(rows) : x # y => s[x] # s[y]
        /\ \A x, y \in 1..Cardinality(rows) : x < y => tbl[s[x]].date <= tbl[s[y]].date}

\* Mutant: ORDER BY date DESC.
SelectNewestFirst(tbl, last_announced_at, t) ==
    {[x \in 1..Len(s) |-> tbl[s[Len(s) + 1 - x]]] :
        s \in OrderedByDate(tbl, Unannounced(tbl, last_announced_at, t))}

\* The rows get_unnanounced_chapters can return for a watermark read before.
SelectUnannounced(tbl, last_announced_at, t) ==
    {[x \in 1..Len(s) |-> tbl[s[x]]] :
        s \in OrderedByDate(tbl, Unannounced(tbl, last_announced_at, t))}

\* SELECT id FROM Chapters WHERE manga = ?1 AND title = ?2 AND number = ?3
ChapterExists(tbl, ch) ==
    \E k \in 1..Len(tbl) :
        tbl[k].manga = ch.manga /\ tbl[k].title = ch.title /\ tbl[k].number = ch.number

\* Mutant: the INSERT without the SELECT before it.
SaveOneUnchecked(tbl, ch, t) == Append(tbl, ChapterRow(ch, t))

\* Mutant: INSERT OR REPLACE, the row of the same (manga, title, number)
\* takes the values fetched last.
SaveOneReplaces(tbl, ch, t) ==
    IF ChapterExists(tbl, ch)
    THEN [k \in 1..Len(tbl) |->
            IF tbl[k].manga = ch.manga /\ tbl[k].title = ch.title /\ tbl[k].number = ch.number
            THEN ChapterRow(ch, t) ELSE tbl[k]]
    ELSE Append(tbl, ChapterRow(ch, t))

\* The body of the for loop of save_chapters.
SaveOne(tbl, ch, t) ==
    IF ChapterExists(tbl, ch) THEN tbl ELSE Append(tbl, ChapterRow(ch, t))

\* save_chapters over the first n chapters (n < Len(chapters) when a
\* statement failed at chapter n + 1 and the ? returned the Err).
RECURSIVE save_chapters(_, _, _, _)
save_chapters(tbl, chapters, n, t) ==
    IF n = 0 THEN tbl
    ELSE SaveOne(save_chapters(tbl, chapters, n - 1, t), chapters[n], t)

\* discord.rs get_channel_id: the channel id must parse as a number.
NumericChannels == {"100", "200"}
get_channel_id(channel_id) == channel_id \in NumericChannels

(***************************************************************************)
(* What the Gofers hand to save_chapters: parsed Chapters.                 *)
(***************************************************************************)
Chapter(title, number, url, date, announced_at) ==
    [manga |-> "m", title |-> title, number |-> number, url |-> url,
     date |-> date, announced_at |-> announced_at]

ChA  == Chapter("t1", "1", "u1", 1, 1)
\* the same (manga, title, number) as ChA, fetched again with other values
ChA2 == Chapter("t1", "1", "u2", 2, 2)
\* an older chapter of a delayed target: announced after ChA, dated before it
ChB  == Chapter("t2", "2", "u3", 0, 2)

FetchResults == { <<ChA, ChB>>, <<ChB, ChA2>>, <<ChA, ChA2>> }

(***************************************************************************)
(* announcer.rs: announce_for_server, one step per store call and per      *)
(* message sent.  pc is the call the run makes next; "skipped", "ok" and   *)
(* "err" are its ends (Ok(()) for the first two); of a run that has ended  *)
(* only the number of messages it sent is kept.                            *)
(***************************************************************************)
Run(server, kind) ==
    [guild |-> server.identifier, channel |-> server.feed_channel_identifier,
     kind |-> kind, pc |-> "get_flag", last |-> 0, chapters |-> <<>>, sent |-> 0]

Ended == {"skipped", "ok", "err"}
End(run, how) == [run EXCEPT !.pc = how, !.last = 0, !.chapters = <<>>]
At(r, pc) == r \in 1..Len(runs) /\ runs[r].pc = pc
IO == {"ok", "fail"}

\* Mutant: the flag is read and not looked at.
GetFlagUnheeded(r) ==
    /\ At(r, "get_flag")
    /\ \E io \in IO :
        LET is_announcing == get_announcing_server_flag(Servers, runs[r].guild)
        IN  runs' = [runs EXCEPT ![r] =
                IF io = "fail" \/ ~is_announcing.ok THEN End(@, "err")
                ELSE [@ EXCEPT !.pc = "set_flag"]]
    /\ UNCHANGED <<now, Servers, Chapters, batch, saves, saved>>

\* announcer.rs:88-98
GetFlag(r) ==
    /\ At(r, "get_flag")
    /\ \E io \in IO :
        LET is_announcing == get_announcing_server_flag(Servers, runs[r].guild)
        IN  runs' = [runs EXCEPT ![r] =
                IF io = "fail" \/ ~is_announcing.ok THEN End(@, "err")
                ELSE IF is_announcing.value THEN End(@, "skipped")
                ELSE [@ EXCEPT !.pc = "set_flag"]]
    /\ UNCHANGED <<now, Servers, Chapters, batch, saves, saved>>

\* announcer.rs:99-101
SetFlag(r) ==
    /\ At(r, "set_flag")
    /\ \E io \in IO :
        LET set == set_announcing_server_flag(Servers, runs[r].guild, TRUE)
        IN  IF io = "fail" \/ ~set.ok
            THEN /\ runs' = [runs EXCEPT ![r] = End(@, "err")]
                 /\ UNCHANGED Servers
            ELSE /\ runs' = [runs EXCEPT ![r].pc = "get_last"]
                 /\ Servers' = set.table
    /\ UNCHANGED <<now, Chapters, batch, saves, saved>>

\* sqlite.rs:138-141, called from announcer.rs:103
GetLast(r) ==
    /\ At(r, "get_last")
    /\ \E io \in IO :
        LET last_announced_at == get_last_announced_time(Servers, runs[r].guild)
        IN  runs' = [runs EXCEPT ![r] =
                IF io = "fail" \/ ~last_announced_at.ok THEN End(@, "err")
                ELSE [@ EXCEPT !.pc = "select", !.last = last_announced_at.value]]
    /\ UNCHANGED <<now, Servers, Chapters, batch, saves, saved>>

\* What announce_for_server does with the chapters it got: announcer.rs:106-125.
AfterSelect(run, chapters) ==
    IF Len(chapters) = 0
    THEN [run EXCEPT !.pc = "clear_flag", !.chapters = chapters]
    ELSE IF ~get_channel_id(run.channel)
    THEN End(run, "err")
    ELSE [run EXCEPT !.pc = "send", !.chapters = chapters]

\* sqlite.rs:143-166, then announcer.rs:106-114
Select(r) ==
    /\ At(r, "select")
    /\ \E io \in IO :
        IF io = "fail"
        THEN runs' = [runs EXCEPT ![r] = End(@, "err")]
        ELSE \E chapters \in SelectUnannounced(Chapters, runs[r].last, now) :
                runs' = [runs EXCEPT ![r] = AfterSelect(@, chapters)]
    /\ UNCHANGED <<now, Servers, Chapters, batch, saves, saved>>

\* Mutant: a failed send is passed over and the run goes on to the watermark.
AfterSendIgnoringErr(run, io) ==
    IF io = "fail" THEN [run EXCEPT !.pc = "set_last"]
    ELSE [run EXCEPT !.sent = @ + 1,
                     !.pc = IF run.sent + 1 = Len(run.chapters) THEN "set_last" ELSE "send"]

\* Mutant: a failed send ends the sends and the run goes on to clear the flag.
AfterSendFailClears(run, io) ==
    IF io = "fail" THEN [run EXCEPT !.pc = "clear_flag"]
    ELSE [run EXCEPT !.sent = @ + 1,
                     !.pc = IF run.sent + 1 = Len(run.chapters) THEN "set_last" ELSE "send"]

\* discord.rs:123-134 send_chapters: the next message of the loop; the ? on
\* a failed send returns from send_chapters and from announce_for_server.
AfterSend(run, io) ==
    IF io = "fail" THEN End(run, "err")
    ELSE [run EXCEPT !.sent = @ + 1,
                     !.pc = IF run.sent + 1 = Len(run.chapters) THEN "set_last" ELSE "send"]

Send(r) ==
    /\ At(r, "send")
    /\ \E io \in IO : runs' = [runs EXCEPT ![r] = AfterSend(@, io)]
    /\ UNCHANGED <<now, Servers, Chapters, batch, saves, saved>>

\* announcer.rs:116-118
SetLast(r) ==
    /\ At(r, "set_last")
    /\ \E io \in IO :
        LET set == set_last_announced_time(Servers, runs[r].guild, now)
        IN  IF io = "fail" \/ ~set.ok
            THEN /\ runs' = [runs EXCEPT ![r] = End(@, "err")]
                 /\ UNCHANGED Servers
            ELSE /\ runs' = [runs EXCEPT ![r].pc = "clear_flag"]
                 /\ Servers' = set.table
    /\ UNCHANGED <<now, Chapters, batch, saves, saved>>

\* announcer.rs:127-131
ClearFlag(r) ==
    /\ At(r, "clear_flag")
    /\ \E io \in IO :
        LET set == set_announcing_server_flag(Servers, runs[r].guild, FALSE)
        IN  IF io = "fail" \/ ~set.ok
            THEN /\ runs' = [runs EXCEPT ![r] = End(@, "err")]
                 /\ UNCHANGED Servers
            ELSE /\ runs' = [runs EXCEPT ![r] = End(@, "ok")]
                 /\ Servers' = set.table
    /\ UNCHANGED <<now, Chapters, batch, saves, saved>>

(***************************************************************************)
(* The workers that start the runs.  start_announcer lets one Announcer    *)
(* and one SoloAnnouncer per guild be tracked at a time, and a worker is   *)
(* tracked until it has been joined.                                       *)
(***************************************************************************)
Active(kind) == {r \in 1..Len(runs) : runs[r].kind = kind /\ runs[r].pc \notin Ended}

RECURSIVE RunsFor(_, _)
RunsFor(servers, kind) ==
    IF servers = <<>> THEN <<>>
    ELSE <<Run(Head(servers), kind)>> \o RunsFor(Tail(servers), kind)

\* announcer.rs:19-38 dispatch_announcer: one announce_for_server per row
AnnouncerStarts ==
    /\ batch = "idle"
    /\ runs' = runs \o RunsFor(get_servers(Servers), "Announcer")
    /\ batch' = "running"
    /\ UNCHANGED <<now, Servers, Chapters, saves, saved>>

IsSolo(run) == run.kind = "SoloAnnouncer"

\* Mutant: the worker returns without joining its runs.
AnnouncerEndsUnjoined ==
    /\ batch = "running"
    /\ runs' = SelectSeq(runs, IsSolo)
    /\ batch' = "idle"
    /\ UNCHANGED <<now, Servers, Chapters, saves, saved>>

\* announcer.rs:40-45: every spawned run has been joined
AnnouncerEnds ==
    /\ batch = "running"
    /\ Active("Announcer") = {}
    /\ runs' = SelectSeq(runs, IsSolo)
    /\ batch' = "idle"
    /\ UNCHANGED <<now, Servers, Chapters, saves, saved>>

\* announcer.rs:48-59 dispatch_solo_announcer, for the Server of a /announce
SoloAnnouncerStarts ==
    /\ \E server \in {s \in Range(get_servers(Servers)) :
                        \A r \in 1..Len(runs) :
                            IsSolo(runs[r]) => runs[r].guild # s.identifier} :
        runs' = Append(runs, Run(server, "SoloAnnouncer"))
    /\ UNCHANGED <<now, Servers, Chapters, batch, saves, saved>>

\* announcer.rs:61-78: the run of a SoloAnnouncer has been joined
SoloAnnouncerEnds ==
    /\ \E r \in 1..Len(runs) :
        /\ IsSolo(runs[r])
        /\ runs[r].pc \in Ended
        /\ runs' = RemoveAt(runs, r)
    /\ UNCHANGED <<now, Servers, Chapters, batch, saves, saved>>

\* gofer.rs:77-89: one save_chapters call of a Gofer.  stop is the number
\* of chapters done when a statement fails, Len(chapters) when none does.
GoferSaves ==
    /\ saves < MaxSaves
    /\ \E chapters \in FetchResults, stop \in 0..2 :
        /\ stop <= Len(chapters)
        /\ Chapters' = save_chapters(Chapters, chapters, stop, now)
        /\ saved' = [chapters |-> chapters, ok |-> stop = Len(chapters)]
    /\ saves' = saves + 1
    /\ UNCHANGED <<now, Servers, runs, batch>>

\* Time passes.
Tick ==
    /\ now < MaxTime
    /\ now' = now + 1
    /\ UNCHANGED <<Servers, Chapters, runs, batch, saves, saved>>

RunStep ==
    \E r \in 1..Len(runs) :
        \/ GetFlag(r)
        \/ SetFlag(r)
        \/ GetLast(r)
        \/ Select(r)
        \/ Send(r)
        \/ SetLast(r)
        \/ ClearFlag(r)

\* The Servers table after /set-as-feed-channel was used in a guild at time 0.
FeedChannels == <<ServerRow("g1", "100", 0)>>

\* A database in which nothing has been fetched yet.
DatabaseInit ==
    /\ now = 0
    /\ Servers = FeedChannels
    /\ Chapters = <<>>
    /\ runs = <<>>
    /\ batch = "idle"
    /\ saves = 0
    /\ saved = NoSave
    /\ gofer = NoGofer
    /\ OthersIdle

StoreInit == CoreInit /\ DatabaseInit

StoreNext ==
    \/ (RunStep /\ UNCHANGED <<coreVars, gofer, otherVars>>)
    \/ (AnnouncerStarts /\ UNCHANGED <<coreVars, gofer, otherVars>>)
    \/ (AnnouncerEnds /\ UNCHANGED <<coreVars, gofer, otherVars>>)
    \/ (SoloAnnouncerStarts /\ UNCHANGED <<coreVars, gofer, otherVars>>)
    \/ (SoloAnnouncerEnds /\ UNCHANGED <<coreVars, gofer, otherVars>>)
    \/ (GoferSaves /\ UNCHANGED <<coreVars, gofer, otherVars>>)
    \/ (Tick /\ UNCHANGED <<coreVars, gofer, otherVars>>)

\* The announce runs and the saves against that database, while a Discord
\* connection is up.
StoreSpec == StoreInit /\ [][StoreNext]_vars

\* A database with the feed channels of two guilds, after the first fetch
\* was saved.
BatchInit ==
    /\ CoreInit
    /\ now = 0
    /\ Servers = <<ServerRow("g1", "100", 0), ServerRow("g2", "200", 0)>>
    /\ Chapters \in {save_chapters(<<>>, c, Len(c), 0) : c \in FetchResults}
    /\ runs = <<>>
    /\ batch = "idle"
    /\ saves = 0
    /\ saved = NoSave
    /\ gofer = NoGofer
    /\ OthersIdle

BatchNext ==
    \/ (RunStep /\ UNCHANGED <<coreVars, gofer, otherVars>>)
    \/ (AnnouncerStarts /\ UNCHANGED <<coreVars, gofer, otherVars>>)
    \/ (AnnouncerEnds /\ UNCHANGED <<coreVars, gofer, otherVars>>)
    \/ (Tick /\ UNCHANGED <<coreVars, gofer, otherVars>>)

\* The Announcer worker alone, over two destinations.
BatchSpec == BatchInit /\ [][BatchNext]_vars

(***************************************************************************)
(* gofer.rs: run_gofer, one step per fetch_chapters call and per           *)
(* save_chapters call.  The locals of the call are in gofer: pc is "idle"  *)
(* (not called), "fetch" (in the first loop), "save" (in the second loop)  *)
(* or "ok" (returned Ok(())); attempts is the `attempts` of the loop the   *)
(* call is in; some and chapters are the Option `chapters`; fetches counts *)
(* the fetch_chapters calls made.                                          *)
(***************************************************************************)
\* gofer.rs:51  let mut attempts = 5;
FetchAttempts == 5
\* gofer.rs:79  let mut attempts = 5;
SaveAttempts == 5

FetchErr == [ok |-> FALSE, chapters |-> <<>>]
FetchOk(chapters) == [ok |-> TRUE, chapters |-> chapters]

\* What parse_rss / parse_json / parse_html can make of a body: an Err, or
\* a list of chapters, which may be empty.
ParseOutcomes == {FetchErr} \cup {FetchOk(c) : c \in FetchResults \cup {<<>>}}

\* gofer.rs:105-115: the `?` on fetch_body returns its Err, otherwise the
\* result is what the parser of the target's mode returns.
fetch_chapters(body_ok, parsed) == IF body_ok THEN parsed ELSE FetchErr

\* Mutant: a failed fetch is not tried again.
AfterFetchGivesUp(g, fetch) ==
    IF fetch.ok
    THEN [g EXCEPT !.some = TRUE, !.chapters = fetch.chapters, !.fetches = @ + 1,
                   !.attempts = SaveAttempts, !.pc = "save"]
    ELSE [g EXCEPT !.attempts = @ - 1, !.fetches = @ + 1, !.pc = "ok"]

\* gofer.rs:53-77: after one fetch_chapters call.  Ok: chapters is Some,
\* break, and the second loop is entered with its own attempts.  Err:
\* attempts -= 1, and with attempts == 0 the loop ends, chapters is None
\* and the function returns Ok(()).
AfterFetch(g, fetch) ==
    IF fetch.ok
    THEN [g EXCEPT !.some = TRUE, !.chapters = fetch.chapters, !.fetches = @ + 1,
                   !.attempts = SaveAttempts, !.pc = "save"]
    ELSE [g EXCEPT !.attempts = @ - 1, !.fetches = @ + 1,
                   !.pc = IF g.attempts - 1 > 0 THEN "fetch" ELSE "ok"]

\* Mutant: the loop goes on after a save that returned Ok.
AfterSaveGoesOn(g, save_ok) ==
    [g EXCEPT !.attempts = @ - 1,
              !.pc = IF g.attempts - 1 > 0 THEN "save" ELSE "ok"]

\* gofer.rs:82-86: after one save_chapters call.  Ok: break.  Err:
\* attempts -= 1, and with attempts == 0 the loop ends.
AfterSave(g, save_ok) ==
    IF save_ok
    THEN [g EXCEPT !.pc = "ok"]
    ELSE [g EXCEPT !.attempts = @ - 1,
                   !.pc = IF g.attempts - 1 > 0 THEN "save" ELSE "ok"]

\* gofer.rs:47-51: run_gofer is called for a target.
RunGoferStarts ==
    /\ gofer.pc = "idle"
    /\ gofer' = [pc |-> "fetch", attempts |-> FetchAttempts, some |-> FALSE,
                 chapters |-> <<>>, fetches |-> 0]
    /\ UNCHANGED <<now, Servers, Chapters, runs, batch, saves, saved>>

\* gofer.rs:52-67: one pass of the first loop.
RunGoferFetch ==
    /\ gofer.pc = "fetch"
    /\ gofer.attempts > 0
    /\ \E body_ok \in BOOLEAN, parsed \in ParseOutcomes :
        gofer' = AfterFetch(gofer, fetch_chapters(body_ok, parsed))
    /\ UNCHANGED <<now, Servers, Chapters, runs, batch, saves, saved>>

\* gofer.rs:80-87: one pass of the second loop.  stop is the number of
\* chapters done when a statement of save_chapters fails, Len(chapters)
\* when none does.
RunGoferSave ==
    /\ gofer.pc = "save"
    /\ gofer.attempts > 0
    /\ \E stop \in 0..Len(gofer.chapters) :
        /\ Chapters' = save_chapters(Chapters, gofer.chapters, stop, now)
        /\ saved' = [chapters |-> gofer.chapters, ok |-> stop = Len(gofer.chapters)]
        /\ gofer' = AfterSave(gofer, stop = Len(gofer.chapters))
    /\ saves' = saves + 1
    /\ UNCHANGED <<now, Servers, runs, batch>>

\* A database that is empty, or holds what an earlier fetch has saved.
GoferInit ==
    /\ CoreInit
    /\ now = 0
    /\ Servers = FeedChannels
    /\ Chapters \in {<<>>, save_chapters(<<>>, <<ChA, ChB>>, 2, 0)}
    /\ runs = <<>>
    /\ batch = "idle"
    /\ saves = 0
    /\ saved = NoSave
    /\ gofer = NoGofer
    /\ OthersIdle

GoferNext ==
    \/ (RunGoferStarts /\ UNCHANGED <<coreVars, otherVars>>)
    \/ (RunGoferFetch /\ UNCHANGED <<coreVars, otherVars>>)
    \/ (RunGoferSave /\ UNCHANGED <<coreVars, otherVars>>)
    \/ (Tick /\ UNCHANGED <<coreVars, gofer, otherVars>>)

\* One Gofer, from its call to its return.
GoferSpec == GoferInit /\ [][GoferNext]_vars

(***************************************************************************)
(* gofer.rs: dispatch_gofers, the Gofer worker.  It spawns a run_gofer     *)
(* task per target, awaits their JoinHandles in spawn order and then sends *)
(* GoferFinished.  dispatch.pc is "idle" (not called), "await" (in the     *)
(* second loop, next the index of the handle awaited) or "ok" (returned).  *)
(***************************************************************************)
\* The targets of the configuration, by name.
Targets == <<"target1", "target2">>
\* What the parser of each target's mode can make of the target's source
\* while the worker runs: an Err, or the chapters the source lists.
Feeds == <<{FetchErr, FetchOk(<<ChA, ChB>>)},
           {FetchErr, FetchOk(<<ChB, ChA2>>), FetchOk(<<>>)}>>

\* gofer.rs:28-34 and 47-51: every target's run_gofer task is spawned.
DispatchGofersStarts ==
    /\ dispatch.pc = "idle"
    /\ \E triggers_announcer \in BOOLEAN :
        dispatch' = [pc |-> "await", next |-> 1, triggers_announcer |-> triggers_announcer]
    /\ gofers' = [k \in 1..Len(Targets) |->
                    [pc |-> "fetch", attempts |-> FetchAttempts, some |-> FALSE,
                     chapters |-> <<>>, fetches |-> 0]]
    /\ UNCHANGED <<now, Servers, Chapters, runs, batch, saves, saved, gofer, finished>>

\* gofer.rs:52-67 in the task of target k.
GoferFetch(k) ==
    /\ gofers[k].pc = "fetch"
    /\ gofers[k].attempts > 0
    /\ \E body_ok \in BOOLEAN, parsed \in Feeds[k] :
        gofers' = [gofers EXCEPT ![k] = AfterFetch(@, fetch_chapters(body_ok, parsed))]
    /\ UNCHANGED <<now, Servers, Chapters, runs, batch, saves, saved, gofer,
                   dispatch, finished>>

\* gofer.rs:80-87 in the task of target k; the lock on the database is held
\* over the save_chapters call.
GoferSave(k) ==
    /\ gofers[k].pc = "save"
    /\ gofers[k].attempts > 0
    /\ \E stop \in 0..Len(gofers[k].chapters) :
        /\ Chapters' = save_chapters(Chapters, gofers[k].chapters, stop, now)
        /\ saved' = [chapters |-> gofers[k].chapters,
                     ok |-> stop = Len(gofers[k].chapters)]
        /\ gofers' = [gofers EXCEPT ![k] = AfterSave(@, stop = Len(gofers[k].chapters))]
    /\ saves' = saves + 1
    /\ UNCHANGED <<now, Servers, runs, batch, gofer, dispatch, finished>>

GofersStep == \E k \in 1..Len(gofers) : GoferFetch(k) \/ GoferSave(k)

\* Mutant: the handle is not awaited.
AwaitHandleUnfinished ==
    /\ dispatch.pc = "await"
    /\ dispatch.next <= Len(gofers)
    /\ dispatch' = [dispatch EXCEPT !.next = @ + 1]
    /\ UNCHANGED <<now, Servers, Chapters, runs, batch, saves, saved, gofer,
                   gofers, finished>>

\* gofer.rs:36-38: `let _ = handle.await;` for the next handle; the
\* result of the task is dropped.
AwaitHandle ==
    /\ dispatch.pc = "await"
    /\ dispatch.next <= Len(gofers)
    /\ gofers[dispatch.next].pc = "ok"
    /\ dispatch' = [dispatch EXCEPT !.next = @ + 1]
    /\ UNCHANGED <<now, Servers, Chapters, runs, batch, saves, saved, gofer,
                   gofers, finished>>

\* gofer.rs:40-42: all handles were awaited; GoferFinished is sent and the
\* worker returns Ok(()).
DispatchGofersEnds ==
    /\ dispatch.pc = "await"
    /\ dispatch.next > Len(gofers)
    /\ finished' = Append(finished, dispatch.triggers_announcer)
    /\ dispatch' = [dispatch EXCEPT !.pc = "ok"]
    /\ UNCHANGED <<now, Servers, Chapters, runs, batch, saves, saved, gofer, gofers>>

\* A database that is empty, or holds what an earlier fetch has saved.
FetchAllInit == GoferInit

FetchAllNext ==
    \/ (DispatchGofersStarts /\ UNCHANGED <<coreVars, one_shot, parseVars, moreVars>>)
    \/ (GofersStep /\ UNCHANGED <<coreVars, one_shot, parseVars, moreVars>>)
    \/ (AwaitHandle /\ UNCHANGED <<coreVars, one_shot, parseVars, moreVars>>)
    \/ (DispatchGofersEnds /\ UNCHANGED <<coreVars, one_shot, parseVars, moreVars>>)

\* One Gofer worker over the targets.  Every spawned task and the worker
\* itself are scheduled by the tokio runtime until they return.
FetchAllSpec == FetchAllInit /\ [][FetchAllNext]_vars /\ WF_vars(FetchAllNext)

(***************************************************************************)
(* parsers: what the three parsers take and give.  A Target carries the    *)
(* fields a parser reads; a document is what the library that reads it     *)
(* (feed_rs, serde_json, scraper) makes of the text.  Dates are days.  A   *)
(* call gives Ok(chapters), an Err, or it panics.                          *)
(***************************************************************************)
\* Elements (entries) of one document.
MaxElements == 3

None == <<>>
Some(x) == <<x>>
\* delay: None
NoDelay == -1
Delays == {NoDelay, 0, 1}
\* base_url: Some(BaseUrl) or None
BaseUrl == "https://comic.test"
BaseUrls == {None, Some(BaseUrl)}

ParseOk(chapters) == [status |-> "ok", chapters |-> chapters]
ParseErr == [status |-> "err", chapters |-> <<>>]
ParsePanic == [status |-> "panic", chapters |-> <<>>]

\* Vec::reverse
Reverse(s) == [i \in 1..Len(s) |-> s[Len(s) + 1 - i]]

\* Mutant: the order of the document is kept whatever ascending_source says.
InDocumentOrder(ascending_source, chapters) == chapters

\* if !target.ascending_source { chapters.reverse(); }
Ordered(ascending_source, chapters) ==
    IF ~ascending_source THEN Reverse(chapters) ELSE chapters

\* Mutant: the delay is left out.
AnnouncedAtDate(date, delay) == date

\* date + Duration::days(target.delay.unwrap_or(0).into())
AnnouncedAt(date, delay) == date + (IF delay = NoDelay THEN 0 ELSE delay)

\* Sequences over S of at most MaxElements elements.
Documents(S) == UNION {[1..n -> S] : n \in 0..MaxElements}

(***************************************************************************)
(* parsers/utils.rs: make_link.  Url::parse gives a Url for the strings of *)
(* UrlText, whose text is then the Url written out again; every other      *)
(* string is an Err.                                                       *)
(***************************************************************************)
UrlText ==
    ("https://comic.test/ep/23" :> "https://comic.test/ep/23") @@
    ("https://comic.test/ep/24" :> "https://comic.test/ep/24") @@
    ("HTTPS://comic.test/ep/25" :> "https://comic.test/ep/25") @@
    ("https://comic.test" :> "https://comic.test/")

\* ok = FALSE: the unwrap of the second Url::parse panics
make_link(base_url, link) ==
    IF link \in DOMAIN UrlText
    THEN [ok |-> TRUE, url |-> UrlText[link]]
    ELSE IF (base_url \o link) \in DOMAIN UrlText
         THEN [ok |-> TRUE, url |-> UrlText[base_url \o link]]
         ELSE [ok |-> FALSE, url |-> ""]

\* url: match &target.base_url { Some(base_url) => make_link(..), None => url }
Link(base_url, link) ==
    IF base_url = None THEN [ok |-> TRUE, url |-> link]
    ELSE make_link(base_url[1], link)

(***************************************************************************)
(* parsers/rss.rs.  A feed is valid (parser::parse gave a Feed) or not;    *)
(* an entry has an id, an optional title, an optional published time and   *)
(* its links.                                                              *)
(***************************************************************************)
Entry(id, title, published, links) ==
    [id |-> id, title |-> title, published |-> published, links |-> links]

Entries ==
    { Entry("00024", Some("Part 24: The Omega"), Some(2), <<"https://comic.test/ep/24">>),
      Entry("00023", Some("Part 23: The Alpha"), Some(1), <<"/ep/23">>),
      Entry("00025", Some("Part 25"), None, <<"HTTPS://comic.test/ep/25", "/ep/23">>),
      Entry("00026", None, Some(2), <<"/ep/23">>),
      Entry("00027", Some("Part 27"), Some(2), <<>>),
      Entry("00028", Some("Part 28"), Some(2), <<":x">>) }

RssTargets ==
    [mode : {"Rss"}, ascending_source : BOOLEAN, base_url : BaseUrls, delay : Delays]

RssSources ==
    {[mode |-> "Rss", valid |-> FALSE, entries |-> <<>>]} \cup
    [mode : {"Rss"}, valid : {TRUE}, entries : Documents(Entries)]

\* The announcement time of a chapter of a feed: its date plus the delay of
\* its target.
rss_announced_at(date, delay) == AnnouncedAt(date, delay)

\* The unwraps of the loop body, and of make_link, on one entry.
EntryPanics(tgt, entry) ==
    \/ entry.links = <<>>
    \/ entry.title = None
    \/ ~Link(tgt.base_url, entry.links[1]).ok

\* The Chapter pushed for one entry at time t.
EntryChapter(tgt, entry, t) ==
    LET date == IF entry.published = None THEN t ELSE entry.published[1]
    IN  Chapter(entry.title[1], entry.id, Link(tgt.base_url, entry.links[1]).url,
                date, rss_announced_at(date, tgt.delay))

parse_rss(tgt, src, t) ==
    IF ~src.valid \/ \E i \in 1..Len(src.entries) : EntryPanics(tgt, src.entries[i])
    THEN ParsePanic
    ELSE ParseOk(Ordered(tgt.ascending_source,
                    [i \in 1..Len(src.entries) |-> EntryChapter(tgt, src.entries[i], t)]))

(***************************************************************************)
(* parsers/json.rs.  A serde_json Value is a record of its type t and its  *)
(* content (s of a string, n of a number); an element of the chapters      *)
(* array is a function from the dot-paths it has to their Values.          *)
(***************************************************************************)
JString(s) == [t |-> "string", s |-> s, n |-> 0]
JInt(n) == [t |-> "int", s |-> "", n |-> n]
JFloat(s) == [t |-> "float", s |-> s, n |-> 0]
JBool(b) == [t |-> "bool", s |-> "", n |-> IF b THEN 1 ELSE 0]

\* json_dotpath: Some(value) or None
dot_get(json, path) == IF path \in DOMAIN json THEN Some(json[path]) ELSE None

TargetKeys(date_format) ==
    [number |-> <<"number">>, title |-> <<"number", "title">>, date |-> "date",
     date_format |-> date_format, url |-> "url",
     skip |-> {<<"readable", JBool(FALSE)>>}]

JsonDateTimeFormats == {None, Some("UnixSec")}

JsonTargets ==
    [mode : {"Json"}, ascending_source : BOOLEAN, base_url : BaseUrls, delay : Delays,
     keys : {TargetKeys(f) : f \in JsonDateTimeFormats}]

JsonElement(number, title, date, url) ==
    ("number" :> number) @@ ("title" :> title) @@ ("date" :> date) @@ ("url" :> url)

Without(json, path) == [p \in DOMAIN json \ {path} |-> json[p]]

J23 == JsonElement(JInt(23), JString("The Alpha"), JString("1970-01-02T00:00:00Z"),
                   JString("/ep/23")) @@ ("readable" :> JString("false"))
J24 == JsonElement(JInt(24), JString("The Omega"), JInt(172800),
                   JString("https://comic.test/ep/24")) @@ ("readable" :> JBool(TRUE))
J25 == JsonElement(JString("25"), JString("Part 25"), JString("1970-01-03T00:00:00Z"),
                   JString("HTTPS://comic.test/ep/25"))

JsonElements ==
    { J23, J24, J25,
      \* not readable, and without a title
      ("readable" :> JBool(FALSE)) @@ Without(J23, "title"),
      Without(J25, "title"),
      JsonElement(JFloat("26.5"), JString("Part 26"), JInt(86400), JString("/ep/23")),
      Without(J25, "date"),
      JsonElement(JInt(27), JString("Part 27"), JString("soon"), JString("/ep/23")),
      Without(J25, "url"),
      JsonElement(JInt(28), JString("Part 28"), JString("1970-01-02T00:00:00Z"),
                  JBool(TRUE)) }

\* valid: serde_json::from_str gave a Value; chapters: what is at the
\* chapters dot-path ("array", "other" for another Value, "absent")
JsonSources ==
    {[mode |-> "Json", valid |-> FALSE, chapters |-> "absent", elements |-> <<>>],
     [mode |-> "Json", valid |-> TRUE, chapters |-> "absent", elements |-> <<>>],
     [mode |-> "Json", valid |-> TRUE, chapters |-> "other", elements |-> <<>>]} \cup
    [mode : {"Json"}, valid : {TRUE}, chapters : {"array"},
     elements : Documents(JsonElements)]

convert_value_into_string(value) ==
    IF value.t = "string" THEN [ok |-> TRUE, s |-> value.s]
    ELSE IF value.t = "int" THEN [ok |-> TRUE, s |-> ToString(value.n)]
    ELSE [ok |-> FALSE, s |-> ""]

\* vec.join(" ")
RECURSIVE Join(_)
Join(strings) ==
    IF strings = <<>> THEN ""
    ELSE IF Len(strings) = 1 THEN strings[1]
    ELSE strings[1] \o " " \o Join(Tail(strings))

mixer(chapter_json, keys) ==
    IF \A i \in 1..Len(keys) :
            /\ dot_get(chapter_json, keys[i]) # None
            /\ convert_value_into_string(dot_get(chapter_json, keys[i])[1]).ok
    THEN [ok |-> TRUE,
          s |-> Join([i \in 1..Len(keys) |->
                        convert_value_into_string(dot_get(chapter_json, keys[i])[1]).s])]
    ELSE [ok |-> FALSE, s |-> ""]

\* DateTime::parse_from_rfc3339, in days
Rfc3339 == ("1970-01-02T00:00:00Z" :> 1) @@ ("1970-01-03T00:00:00Z" :> 2)
SecondsOfDay == 86400

\* The match on keys.date_format: as_i64().unwrap() and as_str().unwrap()
\* panic on a Value of another type, a text that is no date is an Err.
parse_date(date_format, date) ==
    IF date_format = Some("UnixSec")
    THEN IF date.t = "int"
         THEN [status |-> "ok", date |-> date.n \div SecondsOfDay]
         ELSE [status |-> "panic", date |-> 0]
    ELSE IF date.t # "string" THEN [status |-> "panic", date |-> 0]
         ELSE IF date.s \in DOMAIN Rfc3339
              THEN [status |-> "ok", date |-> Rfc3339[date.s]]
              ELSE [status |-> "err", date |-> 0]

\* Mutant: a skip-condition also holds of an element without its dot-path.
SkipConditionOrAbsent(keys, chapter_json) ==
    \E skip_condition \in keys.skip :
        \/ dot_get(chapter_json, skip_condition[1]) = None
        \/ dot_get(chapter_json, skip_condition[1])[1] = skip_condition[2]

\* The loop over keys.skip: continue 'outer
SkipCondition(keys, chapter_json) ==
    \E skip_condition \in keys.skip :
        /\ dot_get(chapter_json, skip_condition[1]) # None
        /\ dot_get(chapter_json, skip_condition[1])[1] = skip_condition[2]

NoChapter == Chapter("", "", "", 0, 0)
Element(status, chapter) == [status |-> status, chapter |-> chapter]

\* The body of the loop over chapters_json for one element: "skip" for
\* continue 'outer, "err" for a ? that returns from parse_json, "panic" for
\* an unwrap on None, "ok" with the Chapter that is pushed.
JsonChapter(tgt, chapter_json) ==
    LET keys == tgt.keys
        number == mixer(chapter_json, keys.number)
        title == mixer(chapter_json, keys.title)
        date_value == dot_get(chapter_json, keys.date)
        date == parse_date(keys.date_format, date_value[1])
        url_value == dot_get(chapter_json, keys.url)
        url == convert_value_into_string(url_value[1])
        link == Link(tgt.base_url, url.s)
    IN  IF SkipCondition(keys, chapter_json) THEN Element("skip", NoChapter)
        ELSE IF ~number.ok \/ ~title.ok THEN Element("err", NoChapter)
        ELSE IF date_value = None THEN Element("panic", NoChapter)
        ELSE IF date.status # "ok" THEN Element(date.status, NoChapter)
        ELSE IF url_value = None THEN Element("panic", NoChapter)
        ELSE IF ~url.ok THEN Element("err", NoChapter)
        ELSE IF ~link.ok THEN Element("panic", NoChapter)
        ELSE Element("ok", Chapter(title.s, number.s, link.url, date.date,
                                   AnnouncedAt(date.date, tgt.delay)))

\* The loop over the first n elements.
RECURSIVE JsonLoop(_, _, _)
JsonLoop(tgt, chapters_json, n) ==
    IF n = 0 THEN ParseOk(<<>>)
    ELSE LET before == JsonLoop(tgt, chapters_json, n - 1)
             this == JsonChapter(tgt, chapters_json[n])
         IN  IF before.status # "ok" \/ this.status = "skip" THEN before
             ELSE IF this.status = "ok"
                  THEN ParseOk(Append(before.chapters, this.chapter))
                  ELSE [status |-> this.status, chapters |-> <<>>]

parse_json(tgt, src) ==
    IF ~src.valid THEN ParseErr
    ELSE IF src.chapters # "array" THEN ParsePanic
    ELSE LET loop == JsonLoop(tgt, src.elements, Len(src.elements))
         IN  IF loop.status = "ok"
             THEN ParseOk(Ordered(tgt.ascending_source, loop.chapters))
             ELSE loop

(***************************************************************************)
(* parsers/html.rs.  An element selected by chapters_tag has attributes,   *)
(* a text and the sub-elements its field selectors find (the first match   *)
(* of each), which have attributes and a text.                             *)
(***************************************************************************)
TargetTags(date_tag, date_attribute) ==
    [number_tag |-> None, number_attribute |-> Some("data-id"),
     title_tag |-> Some("a"), title_attribute |-> None,
     date_tag |-> date_tag, date_attribute |-> date_attribute, date_format |-> None,
     url_tag |-> Some("a"), url_attribute |-> Some("href")]

HtmlTargets ==
    [mode : {"Html"}, ascending_source : BOOLEAN, base_url : BaseUrls, delay : Delays,
     tags : {TargetTags(Some("time"), Some("datetime")), TargetTags(None, None)}]

Anchor(href, text) == [attrs |-> ("href" :> href), text |-> text]
Time(datetime) == [attrs |-> ("datetime" :> datetime), text |-> ""]
HtmlElement(id, a, time) ==
    [attrs |-> ("data-id" :> id), text |-> a.text, subs |-> ("a" :> a) @@ ("time" :> time)]

HtmlElements ==
    { HtmlElement("23", Anchor("/ep/23", "The Alpha"), Time("1970-01-02")),
      HtmlElement("24", Anchor("https://comic.test/ep/24", "The Omega"),
                  Time("1970-01-03T00:00:00")),
      \* no a
      [attrs |-> ("data-id" :> "25"), text |-> "", subs |-> ("time" :> Time("1970-01-02"))],
      \* an a without href
      HtmlElement("26", [attrs |-> <<>>, text |-> "Part 26"], Time("1970-01-02")),
      HtmlElement("27", Anchor("/ep/23", "Part 27"), Time("soon")),
      HtmlElement("28", Anchor(":x", "Part 28"), Time("1970-01-03")) }

HtmlSources == [mode : {"Html"}, elements : Documents(HtmlElements)]

\* Ok(element) or Err: No element found using tag
get_sub_element(element, tag) ==
    IF tag = None THEN [ok |-> TRUE, element |-> [attrs |-> element.attrs, text |-> element.text]]
    ELSE IF tag[1] \in DOMAIN element.subs
         THEN [ok |-> TRUE, element |-> element.subs[tag[1]]]
         ELSE [ok |-> FALSE, element |-> [attrs |-> <<>>, text |-> ""]]

get_value(element, tag, attribute) ==
    LET sub == get_sub_element(element, tag)
    IN  IF ~sub.ok THEN [ok |-> FALSE, s |-> ""]
        ELSE IF attribute = None THEN [ok |-> TRUE, s |-> sub.element.text]
        ELSE IF attribute[1] \in DOMAIN sub.element.attrs
             THEN [ok |-> TRUE, s |-> sub.element.attrs[attribute[1]]]
             ELSE [ok |-> FALSE, s |-> ""]

\* The texts with a ":" in them, NaiveDateTime::from_str and
\* NaiveDate::from_str, in days.
WithColon == {"1970-01-03T00:00:00", "12:00"}
NaiveDateTimes == ("1970-01-03T00:00:00" :> 2)
NaiveDates == ("1970-01-02" :> 1) @@ ("1970-01-03" :> 2)

parse_string_to_datetime(date_string) ==
    IF date_string \in WithColon
    THEN IF date_string \in DOMAIN NaiveDateTimes
         THEN [ok |-> TRUE, date |-> NaiveDateTimes[date_string]]
         ELSE [ok |-> FALSE, date |-> 0]
    ELSE IF date_string \in DOMAIN NaiveDates
         THEN [ok |-> TRUE, date |-> NaiveDates[date_string]]
         ELSE [ok |-> FALSE, date |-> 0]

\* 'setdate: the current time when neither date_tag nor date_attribute is set
get_date(tags, element, t) ==
    IF tags.date_tag = None /\ tags.date_attribute = None
    THEN [ok |-> TRUE, date |-> t]
    ELSE LET date_string == get_value(element, tags.date_tag, tags.date_attribute)
         IN  IF ~date_string.ok THEN [ok |-> FALSE, date |-> 0]
             ELSE parse_string_to_datetime(date_string.s)

\* The closure: "err" for a ? that leaves the closure, "panic" for the
\* unwrap of make_link, "ok" with the Chapter.
assemble_chapter(tgt, element, t) ==
    LET tags == tgt.tags
        number == get_value(element, tags.number_tag, tags.number_attribute)
        title == get_value(element, tags.title_tag, tags.title_attribute)
        date == get_date(tags, element, t)
        url == get_value(element, tags.url_tag, tags.url_attribute)
        link == Link(tgt.base_url, url.s)
    IN  IF ~number.ok \/ ~title.ok \/ ~date.ok \/ ~url.ok THEN Element("err", NoChapter)
        ELSE IF ~link.ok THEN Element("panic", NoChapter)
        ELSE Element("ok", Chapter(title.s, number.s, link.url, date.date,
                                   AnnouncedAt(date.date, tgt.delay)))

\* Mutant: the Err of the closure is returned with a ?.
AfterAssembleFails(before, chapter) ==
    IF before.status # "ok" THEN before
    ELSE IF chapter.status = "ok"
         THEN ParseOk(Append(before.chapters, chapter.chapter))
         ELSE [status |-> chapter.status, chapters |-> <<>>]

\* if chapter.is_err() { continue; } chapters.push(chapter.unwrap())
AfterAssemble(before, chapter) ==
    IF before.status # "ok" \/ chapter.status = "err" THEN before
    ELSE IF chapter.status = "ok"
         THEN ParseOk(Append(before.chapters, chapter.chapter))
         ELSE ParsePanic

\* The loop over the first n selected elements.
RECURSIVE HtmlLoop(_, _, _, _)
HtmlLoop(tgt, elements, n, t) ==
    IF n = 0 THEN ParseOk(<<>>)
    ELSE AfterAssemble(HtmlLoop(tgt, elements, n - 1, t),
                       assemble_chapter(tgt, elements[n], t))

parse_html(tgt, src, t) ==
    LET loop == HtmlLoop(tgt, src.elements, Len(src.elements), t)
    IN  IF loop.status = "ok"
        THEN ParseOk(Ordered(tgt.ascending_source, loop.chapters))
        ELSE loop

(***************************************************************************)
(* A parser called once with a target and a document of its mode.          *)
(***************************************************************************)
\* gofer.rs fetch_chapters: match target.mode
Parse(tgt, src, t) ==
    CASE tgt.mode = "Rss" -> parse_rss(tgt, src, t)
      [] tgt.mode = "Json" -> parse_json(tgt, src)
      [] tgt.mode = "Html" -> parse_html(tgt, src, t)

ParseRss ==
    /\ target.mode = "Rss"
    /\ parse_result = NotParsed
    /\ parse_result' = parse_rss(target, source, now)

ParseJson ==
    /\ target.mode = "Json"
    /\ parse_result = NotParsed
    /\ parse_result' = parse_json(target, source)

ParseHtml ==
    /\ target.mode = "Html"
    /\ parse_result = NotParsed
    /\ parse_result' = parse_html(target, source, now)

notParsers == <<coreVars, now, Servers, Chapters, runs, batch, saves, saved, gofer,
                fetchVars, one_shot, target, source, moreVars>>

ParseInit ==
    /\ CoreInit
    /\ now = MaxTime
    /\ Servers = <<>>
    /\ Chapters = <<>>
    /\ runs = <<>>
    /\ batch = "idle"
    /\ saves = 0
    /\ saved = NoSave
    /\ gofer = NoGofer
    /\ gofers = <<>>
    /\ dispatch = NoDispatch
    /\ finished = <<>>
    /\ one_shot = "idle"
    /\ \/ target \in RssTargets /\ source \in RssSources
       \/ target \in JsonTargets /\ source \in JsonSources
       \/ target \in HtmlTargets /\ source \in HtmlSources
    /\ parse_result = NotParsed
    /\ delivered = {}
    /\ setting = <<>>

ParseNext ==
    \/ (ParseRss /\ UNCHANGED notParsers)
    \/ (ParseJson /\ UNCHANGED notParsers)
    \/ (ParseHtml /\ UNCHANGED notParsers)

\* Every target with every document of its mode, parsed once.
ParseSpec == ParseInit /\ [][ParseNext]_vars

(***************************************************************************)
(* From a feed to the feed channel: /set-as-feed-channel in one guild, one *)
(* Gofer for an RSS target whose feed lists 00024 before the older 00023,  *)
(* and then one Announcer worker.                                          *)
(***************************************************************************)
\* sqlite.rs:233-246
get_feed_channel(tbl, g) ==
    IF RowsOf(tbl, g) = {}
    THEN [ok |-> FALSE, value |-> ""]
    ELSE [ok |-> TRUE, value |-> tbl[FirstRow(tbl, g)].channelId]

\* sqlite.rs:215-228, the statement under the second lock of
\* set_feed_channel: an UPDATE of channelId when the SELECT before it found
\* a row for the guild, an INSERT of a new row when it found none.
write_feed_channel(tbl, g, c, found, t) ==
    IF found
    THEN [k \in 1..Len(tbl) |->
            IF tbl[k].guildId = g THEN [tbl[k] EXCEPT !.channelId = c] ELSE tbl[k]]
    ELSE Append(tbl, ServerRow(g, c, t))

\* The whole of a set_feed_channel call that no other call on the Servers
\* table comes in between.
\* sqlite.rs:198-231: nothing for the channel that is set already, an
\* UPDATE of channelId for a guild that has a row, and for a new guild an
\* INSERT with lastAnnouncedAt = Utc::now().
set_feed_channel(tbl, g, c, t) ==
    LET currently_set_channel_id == get_feed_channel(tbl, g)
    IN  IF currently_set_channel_id.ok /\ currently_set_channel_id.value = c THEN tbl
        ELSE write_feed_channel(tbl, g, c, currently_set_channel_id.ok, t)

\* discord.rs:96-114 set_as_feed_channel, used in guild g1
SetAsFeedChannel ==
    /\ \E c \in NumericChannels, io \in IO :
        Servers' = IF io = "ok" THEN set_feed_channel(Servers, "g1", c, now) ELSE Servers
    /\ UNCHANGED <<now, Chapters, runs, batch, saves, saved, gofer>>

\* The target and the feed of the test of rss.rs.
TestTarget ==
    [mode |-> "Rss", ascending_source |-> FALSE, base_url |-> Some(BaseUrl),
     delay |-> NoDelay]
TestFeed ==
    [mode |-> "Rss", valid |-> TRUE,
     entries |-> <<Entry("00024", Some("Part 24: The Omega"), Some(2),
                         <<"https://comic.test/ep/24">>),
                   Entry("00023", Some("Part 23: The Alpha"), Some(1), <<"/ep/23">>)>>]

\* gofer.rs:52-67 with the parser of the target: one pass of the first
\* loop.  A panic of the parser ends the task of the Gofer.
FetchAndParse ==
    /\ gofer.pc = "fetch"
    /\ gofer.attempts > 0
    /\ \E body_ok \in BOOLEAN :
        LET chapters == Parse(target, source, now)
        IN  /\ gofer' = IF body_ok /\ chapters.status = "panic"
                        THEN [gofer EXCEPT !.pc = "panic"]
                        ELSE AfterFetch(gofer,
                                fetch_chapters(body_ok,
                                    IF chapters.status = "ok"
                                    THEN FetchOk(chapters.chapters) ELSE FetchErr))
            /\ parse_result' = IF body_ok THEN chapters ELSE parse_result
    /\ UNCHANGED <<now, Servers, Chapters, runs, batch, saves, saved>>

\* main.rs:191-193, 221: the Announcer that GoferFinished(true) brings
FetchedThenAnnounce ==
    /\ gofer.pc \in {"ok", "panic"}
    /\ AnnouncerStarts

EndToEndInit ==
    /\ CoreInit
    /\ now = 0
    /\ Servers = <<>>
    /\ Chapters = <<>>
    /\ runs = <<>>
    /\ batch = "idle"
    /\ saves = 0
    /\ saved = NoSave
    /\ gofer = NoGofer
    /\ gofers = <<>>
    /\ dispatch = NoDispatch
    /\ finished = <<>>
    /\ one_shot = "idle"
    /\ target = TestTarget
    /\ source = TestFeed
    /\ parse_result = NotParsed
    /\ delivered = {}
    /\ setting = <<>>

EndToEndNext ==
    \/ (SetAsFeedChannel /\ UNCHANGED <<coreVars, otherVars>>)
    \/ (RunGoferStarts /\ UNCHANGED <<coreVars, otherVars>>)
    \/ (FetchAndParse /\ UNCHANGED <<coreVars, fetchVars, one_shot, target, source, moreVars>>)
    \/ (RunGoferSave /\ UNCHANGED <<coreVars, otherVars>>)
    \/ (FetchedThenAnnounce /\ UNCHANGED <<coreVars, gofer, otherVars>>)
    \/ (RunStep /\ UNCHANGED <<coreVars, gofer, otherVars>>)
    \/ (Tick /\ UNCHANGED <<coreVars, gofer, otherVars>>)

\* One fetch of the feed and one Announcer worker after it.
EndToEndSpec == EndToEndInit /\ [][EndToEndNext]_vars

(***************************************************************************)
(* /set-as-feed-channel used by several members at once.  The commands of  *)
(* the bot run as tasks of their own, and sqlite.rs takes the connection   *)
(* mutex once for the SELECT of get_feed_channel (sqlite.rs:205, 233-246)  *)
(* and once more for the write (sqlite.rs:213): between the two, other     *)
(* calls on the store take their turn.                                     *)
(***************************************************************************)
MaxCalls == 2

Call(g, c, found) == [guild |-> g, channel |-> c, found |-> found]

\* sqlite.rs:198-211: the SELECT, and the return for the channel that is
\* set already.
SetFeedChannelReads ==
    /\ Len(setting) < MaxCalls
    /\ \E c \in NumericChannels :
        LET currently_set_channel_id == get_feed_channel(Servers, "g1")
        IN  /\ ~(currently_set_channel_id.ok /\ currently_set_channel_id.value = c)
            /\ setting' = Append(setting, Call("g1", c, currently_set_channel_id.ok))
    /\ UNCHANGED <<now, Servers, Chapters, runs, batch, saves, saved>>

\* sqlite.rs:213-230: the UPDATE or the INSERT, with Utc::now() of that moment.
SetFeedChannelWrites ==
    /\ \E i \in 1..Len(setting), io \in IO :
        /\ Servers' = IF io = "fail" THEN Servers
                      ELSE write_feed_channel(Servers, setting[i].guild, setting[i].channel,
                                              setting[i].found, now)
        /\ setting' = RemoveAt(setting, i)
    /\ UNCHANGED <<now, Chapters, runs, batch, saves, saved>>

notFeedChannel == <<coreVars, gofer, fetchVars, one_shot, parseVars, delivered>>

FeedChannelInit ==
    /\ CoreInit
    /\ now = 0
    /\ Servers = <<>>
    /\ Chapters = <<>>
    /\ runs = <<>>
    /\ batch = "idle"
    /\ saves = 0
    /\ saved = NoSave
    /\ gofer = NoGofer
    /\ OthersIdle

FeedChannelNext ==
    \/ (SetFeedChannelReads /\ UNCHANGED notFeedChannel)
    \/ (SetFeedChannelWrites /\ UNCHANGED notFeedChannel)
    \/ (AnnouncerStarts /\ UNCHANGED <<notFeedChannel, setting>>)
    \/ (RunStep /\ UNCHANGED <<notFeedChannel, setting>>)
    \/ (AnnouncerEnds /\ UNCHANGED <<notFeedChannel, setting>>)
    \/ (Tick /\ UNCHANGED <<notFeedChannel, setting>>)

\* The feed channel of one guild set again and again while Announcer
\* workers run.
FeedChannelSpec == FeedChannelInit /\ [][FeedChannelNext]_vars

(***************************************************************************)
(* One Gofer for a target of any mode whose source gives a document of at  *)
(* most one element, fetch by fetch.                                       *)
(***************************************************************************)
Short(sources) ==
    {src \in sources : Len(IF src.mode = "Rss" THEN src.entries ELSE src.elements) <= 1}

AttemptInit ==
    /\ CoreInit
    /\ now = 0
    /\ Servers = FeedChannels
    /\ Chapters = <<>>
    /\ runs = <<>>
    /\ batch = "idle"
    /\ saves = 0
    /\ saved = NoSave
    /\ gofer = NoGofer
    /\ gofers = <<>>
    /\ dispatch = NoDispatch
    /\ finished = <<>>
    /\ one_shot = "idle"
    /\ \/ target \in RssTargets /\ source \in Short(RssSources)
       \/ target \in JsonTargets /\ source \in Short(JsonSources)
       \/ target \in HtmlTargets /\ source \in Short(HtmlSources)
    /\ parse_result = NotParsed
    /\ delivered = {}
    /\ setting = <<>>

AttemptNext ==
    \/ (RunGoferStarts /\ UNCHANGED <<coreVars, otherVars>>)
    \/ (FetchAndParse /\ UNCHANGED <<coreVars, fetchVars, one_shot, target, source, moreVars>>)
    \/ (RunGoferSave /\ UNCHANGED <<coreVars, otherVars>>)

\* One run_gofer call with the parser of the target's mode.
AttemptSpec == AttemptInit /\ [][AttemptNext]_vars

(***************************************************************************)
(* The messages that reach a guild's feed channel.  send_chapters sends    *)
(* one message per chapter (discord.rs:123-134); a message that was sent   *)
(* stays in the channel whatever the run does next.                        *)
(***************************************************************************)
Key(guild, row) == <<guild, row.title, row.number>>

\* The step is a send_message of run r that returned Ok.
Sends(r) == Len(runs') = Len(runs) /\ runs'[r].sent = runs[r].sent + 1

\* A step of a run, and the message in the channel when it was a send.
Deliver ==
    /\ RunStep
    /\ delivered' = delivered \cup
            {Key(runs[r].guild, runs[r].chapters[runs[r].sent + 1]) :
                r \in {q \in 1..Len(runs) : Sends(q)}}

notDelivery == <<coreVars, gofer, fetchVars, one_shot, parseVars, setting>>

\* Two chapters were saved at time 0 for announcement at times 1 and 2.
DeliveryInit ==
    /\ CoreInit
    /\ now = 0
    /\ Servers = FeedChannels
    /\ Chapters = save_chapters(<<>>, <<ChA, ChB>>, 2, 0)
    /\ runs = <<>>
    /\ batch = "idle"
    /\ saves = 0
    /\ saved = NoSave
    /\ gofer = NoGofer
    /\ OthersIdle

DeliveryNext ==
    \/ (Deliver /\ UNCHANGED notDelivery)
    \/ (AnnouncerStarts /\ UNCHANGED <<notDelivery, delivered>>)
    \/ (AnnouncerEnds /\ UNCHANGED <<notDelivery, delivered>>)
    \/ (SoloAnnouncerStarts /\ UNCHANGED <<notDelivery, delivered>>)
    \/ (SoloAnnouncerEnds /\ UNCHANGED <<notDelivery, delivered>>)
    \/ (Tick /\ UNCHANGED <<notDelivery, delivered>>)

\* Announcer and SoloAnnouncer workers, one after another and at once, over
\* chapters that are in the table, with the messages that were sent.
DeliverySpec == DeliveryInit /\ [][DeliveryNext]_vars

(***************************************************************************)
(* Announcer workers one after another, for ever, while Gofers save: every *)
(* store call and every send of a run returns Ok.                          *)
(***************************************************************************)
\* A step of a run in which no call returned an Err.
DeliverOk ==
    /\ Deliver
    /\ \A r \in 1..Len(runs') : runs'[r].pc # "err"

CatchUpNext ==
    \/ (DeliverOk /\ UNCHANGED notDelivery)
    \/ (AnnouncerStarts /\ UNCHANGED <<notDelivery, delivered>>)
    \/ (AnnouncerEnds /\ UNCHANGED <<notDelivery, delivered>>)
    \/ (GoferSaves /\ UNCHANGED <<notDelivery, delivered>>)
    \/ (Tick /\ UNCHANGED <<notDelivery, delivered>>)

\* The cron job keeps starting the Announcer (main.rs:69-76) and every task
\* that can take a step does take one: the saves and the clock ticks are
\* finitely many, so the runs go on and the Announcer is started again and
\* again.
CatchUpSpec == StoreInit /\ [][CatchUpNext]_vars /\ WF_vars(CatchUpNext)

(***************************************************************************)
(* The process is stopped while runs are under way, and started again on   *)
(* the same database file.  No call of a run returns an Err.               *)
(***************************************************************************)
\* sqlite.rs:36-81: CREATE TABLE IF NOT EXISTS for Chapters and Servers, and
\* nothing else; a table that exists keeps its rows as they are.
initialize_database(tbl) == [k \in 1..Len(tbl) |-> tbl[k]]

notCore == <<boot, trigger_announcer_on_gofer_finish, tracker, handles, finished_handle,
             discord_http, receiver, bots, triggers, disconnected>>
notRuns == <<gofer, fetchVars, one_shot, parseVars, setting>>

\* main.rs:260-265: abort_all cancels the workers where they are; the runs
\* of an aborted Announcer go with its JoinSet.  Then main returns.
QuitAborts ==
    /\ core = "running"
    /\ core' = "exited"
    /\ runs' = <<>>
    /\ batch' = "idle"
    /\ UNCHANGED <<notCore, now, Servers, Chapters, saves, saved, notRuns, delivered>>

\* main.rs:108-115: the process starts again and opens the database file.
Restart ==
    /\ core = "exited"
    /\ core' = "running"
    /\ Servers' = initialize_database(Servers)
    /\ Chapters' = initialize_database(Chapters)
    /\ UNCHANGED <<notCore, now, runs, batch, saves, saved, notRuns, delivered>>

RestartNext ==
    \/ (Alive /\ DeliverOk /\ UNCHANGED notDelivery)
    \/ (Alive /\ AnnouncerStarts /\ UNCHANGED <<notDelivery, delivered>>)
    \/ (Alive /\ AnnouncerEnds /\ UNCHANGED <<notDelivery, delivered>>)
    \/ (Alive /\ GoferSaves /\ UNCHANGED <<notDelivery, delivered>>)
    \/ (Tick /\ UNCHANGED <<notDelivery, delivered>>)
    \/ QuitAborts
    \/ Restart

\* Announcer workers and saves in a process that is stopped and started at
\* any moment.
RestartSpec == DeliveryInit /\ [][RestartNext]_vars

(***************************************************************************)
(* The watermark write in two steps.  The argument &Utc::now() of          *)
(* announcer.rs:117 has its value before set_last_announced_time is        *)
(* called; the UPDATE runs once the call has the connection mutex          *)
(* (sqlite.rs:269), after the store calls of the other tasks of the        *)
(* multi-threaded runtime that got it first.                               *)
(***************************************************************************)
\* announcer.rs:117: Utc::now() is evaluated; the run keeps it in `last`.
EvalNow(r) ==
    /\ At(r, "set_last")
    /\ runs' = [runs EXCEPT ![r].pc = "write_last", ![r].last = now]
    /\ UNCHANGED <<now, Servers, Chapters, batch, saves, saved>>

\* sqlite.rs:264-279, and the ? of announcer.rs:118
WriteLast(r) ==
    /\ At(r, "write_last")
    /\ \E io \in IO :
        LET set == set_last_announced_time(Servers, runs[r].guild, runs[r].last)
        IN  IF io = "fail" \/ ~set.ok
            THEN /\ runs' = [runs EXCEPT ![r] = End(@, "err")]
                 /\ UNCHANGED Servers
            ELSE /\ runs' = [runs EXCEPT ![r].pc = "clear_flag", ![r].last = 0]
                 /\ Servers' = set.table
    /\ UNCHANGED <<now, Chapters, batch, saves, saved>>

\* A step of a run, store call by store call.
RunCall ==
    \E r \in 1..Len(runs) :
        \/ GetFlag(r)
        \/ SetFlag(r)
        \/ GetLast(r)
        \/ Select(r)
        \/ Send(r)
        \/ EvalNow(r)
        \/ WriteLast(r)
        \/ ClearFlag(r)

WatermarkNext ==
    \/ (RunCall /\ UNCHANGED <<notFeedChannel, setting>>)
    \/ (AnnouncerStarts /\ UNCHANGED <<notFeedChannel, setting>>)
    \/ (AnnouncerEnds /\ UNCHANGED <<notFeedChannel, setting>>)
    \/ (SoloAnnouncerStarts /\ UNCHANGED <<notFeedChannel, setting>>)
    \/ (SoloAnnouncerEnds /\ UNCHANGED <<notFeedChannel, setting>>)
    \/ (SetFeedChannelReads /\ UNCHANGED notFeedChannel)
    \/ (SetFeedChannelWrites /\ UNCHANGED notFeedChannel)
    \/ (Tick /\ UNCHANGED <<notFeedChannel, setting>>)

\* Announcer and SoloAnnouncer workers and feed channel commands for one
\* guild, over chapters that are in the table.
WatermarkSpec == DeliveryInit /\ [][WatermarkNext]_vars

(***************************************************************************)
(* Properties of the core control loop (checked under Spec).               *)
(***************************************************************************)
Tracked(kind) == {i \in 1..Len(tracker) : tracker[i].kind = kind}
TrackedSolo(id) == {i \in 1..Len(tracker) :
                      tracker[i].kind = "SoloAnnouncer" /\ tracker[i].server.identifier = id}
Identifiers == {s.identifier : s \in ServerValues}

\* A step of the completion branch: the only step that takes a task out of
\* the JoinSet while main is in its loop.
JoinStep == core = "running" /\ BagCardinality(handles') < BagCardinality(handles)

\* The completion branch got the Handle of `worker` (not a JoinError).
ObservedEnd(worker) ==
    /\ JoinStep
    /\ finished_handle'[1] = worker
    /\ finished_handle'[2] # "panic"

\* C1: the tracker holds at most one Gofer, one Announcer and one DiscordBot
\* entry, and at most one SoloAnnouncer entry per Server identifier.
C1_TrackerOnePerIdentity ==
    /\ Cardinality(Tracked("Gofer")) <= 1
    /\ Cardinality(Tracked("Announcer")) <= 1
    /\ Cardinality(Tracked("DiscordBot")) <= 1
    /\ \A id \in Identifiers : Cardinality(TrackedSolo(id)) <= 1

\* A SoloAnnouncer trigger for a guild was turned down while that guild's
\* SoloAnnouncer was tracked beside two other workers.
C1_Witness ==
    /\ core = "failed"
    /\ Len(tracker) >= 3
    /\ TrackedSolo("g1") # {}
    /\ Tracked("DiscordBot") # {}

\* The message branch takes a start message that its start_* function
\* turns down.
RejectedTrigger ==
    /\ Looping /\ NoneFinished
    /\ receiver # <<>>
    /\ receiver' = Tail(receiver)
    /\ LET m == Head(receiver)
       IN  \/ m.type = "StartGofer" /\ Tracked("Gofer") # {}
           \/ m.type = "StartAnnouncer" /\ (discord_http = 0 \/ Tracked("Announcer") # {})
           \/ m.type = "StartSoloAnnouncer"
                /\ (discord_http = 0 \/ TrackedSolo(m.server.identifier) # {})
           \/ m.type = "StartDiscordBot" /\ Tracked("DiscordBot") # {}

\* C2: a rejected start trigger is dropped without effect: tracker, stored
\* Http and tasks stay as they are and the loop goes on running.
C2_RejectionIsDropped ==
    [][RejectedTrigger =>
          /\ tracker' = tracker
          /\ discord_http' = discord_http
          /\ handles' = handles
          /\ core' = "running"]_vars

\* C8: when the end of the Gofer task is observed, StartAnnouncer is sent
\* exactly when its StartGofer asked for it and an Http is stored; nothing
\* is sent otherwise.
C8_ChainNeedsFlagAndHttp ==
    [][ObservedEnd(Gofer) =>
          IF trigger_announcer_on_gofer_finish /\ discord_http # 0
          THEN receiver' = Append(receiver, StartAnnouncer)
          ELSE receiver' = receiver]_vars

\* C9: an Announcer or SoloAnnouncer task is only ever spawned while an Http
\* handed over by a connection is stored, and the spawn leaves it stored.
C9_AnnouncerSpawnNeedsHttp ==
    [][\A t \in BagToSet(handles') :
          (/\ t.worker.kind \in {"Announcer", "SoloAnnouncer"}
           /\ t.state = "running"
           /\ CopiesIn(t, handles') > CopiesIn(t, handles))
          => (discord_http \in 1..bots /\ discord_http' = discord_http)]_vars

\* An Announcer and a SoloAnnouncer task have been spawned.
C9_Witness ==
    /\ \E t \in Tasks : t.worker = Announcer
    /\ \E t \in Tasks : t.worker.kind = "SoloAnnouncer"

\* The end of a connect_discord task has been observed and the
\* StartDiscordBot sent for it is still in the channel.
ReconnectPending ==
    /\ bots >= 1
    /\ Tracked("DiscordBot") = {}
    /\ \E i \in 1..Len(receiver) : receiver[i] = StartDiscordBot

\* C10: after the end of the connection task is observed and StartDiscordBot
\* is sent, a new connection task gets spawned: main does not end with an
\* error while that StartDiscordBot is waiting in the channel.
C10_ReconnectIsSpawned == ReconnectPending => core # "failed"

Over == {"exited", "panicked"}

\* C11: after Quit is processed main takes no further message, spawns no
\* further task and leaves the tracker alone; its one remaining step ends
\* every task and ends the process (main returns, or panics: see C12), and
\* that step is eventually taken; nothing happens after it.
C11_QuitIsTerminal ==
    /\ [][/\ core \notin Over
          /\ core = "quit" =>
                /\ receiver' = receiver
                /\ tracker' = tracker
                /\ handles' = EmptyBag
                /\ core' \in Over]_vars
    /\ (core = "quit") ~> (core \in Over)

\* main has ended after a Quit that was taken while tasks were running and
\* while a later trigger was waiting in the channel.
C11_Witness ==
    /\ core = "exited"
    /\ handles = EmptyBag
    /\ Len(tracker) >= 2
    /\ \E i \in 1..Len(receiver) : receiver[i].type \in {"StartGofer", "StartSoloAnnouncer"}

\* C12: when main has ended after a Quit it has returned normally, and it
\* has called disconnect_discord exactly if an Http was stored.
C12_DisconnectIffHttp ==
    core \in Over => (core = "exited" /\ (disconnected <=> discord_http # 0))

\* The completion branch got the Handle of `worker` with an Err in it.
ObservedErr(worker) == JoinStep /\ finished_handle' = <<worker, "err">>

\* The worker a start message asks for.
WorkerOf(m) ==
    IF m.type = "StartGofer" THEN Gofer
    ELSE IF m.type = "StartAnnouncer" THEN Announcer
    ELSE IF m.type = "StartSoloAnnouncer" THEN SoloAnnouncer(m.server)
    ELSE DiscordBot

StartMessages == {"StartGofer", "StartAnnouncer", "StartSoloAnnouncer", "StartDiscordBot"}

\* The message branch takes a start message of this type.
Takes(type) ==
    /\ Looping /\ NoneFinished
    /\ receiver # <<>>
    /\ receiver' = Tail(receiver)
    /\ Head(receiver).type = type

\* A task of `worker` is spawned in this step.
SpawnedNow(worker) ==
    \E t \in BagToSet(handles') :
        /\ WorkerEq(t.worker, worker)
        /\ t.state \in {"connecting", "running"}
        /\ CopiesIn(t, handles') > CopiesIn(t, handles)

SpawnsNothing == \A t \in BagToSet(handles') : CopiesIn(t, handles') <= CopiesIn(t, handles)

\* The start message taken in this step finds its worker untracked and, for
\* the announcers, an Http stored.
Accepted(m) ==
    /\ get_tracker_index(tracker, WorkerOf(m)) = 0
    /\ m.type \in {"StartAnnouncer", "StartSoloAnnouncer"} => discord_http # 0

\* C13: when a worker task ends with an Err in its Handle main stays in its
\* loop and the worker is no longer tracked; a start message for a worker
\* that is not tracked (an Http being stored, for the announcers) spawns
\* and tracks it, whatever ended before.
C13_ErrIsNotFatal ==
    [][/\ \A w \in Range(tracker) :
            ObservedErr(w) => (core' = "running" /\ get_tracker_index(tracker', w) = 0)
       /\ \A type \in StartMessages :
            (Takes(type) /\ Accepted(Head(receiver)))
                => /\ SpawnedNow(WorkerOf(Head(receiver)))
                   /\ get_tracker_index(tracker', WorkerOf(Head(receiver))) # 0
                   /\ core' = "running"]_vars

\* The Gofer task ended with an Err and a Gofer is tracked and running again.
C13_Witness ==
    /\ finished_handle = <<Gofer, "err">>
    /\ Tracked("Gofer") # {}
    /\ \E t \in Tasks : t.worker = Gofer /\ t.state = "running"

\* C14: a StartGofer taken while a Gofer is tracked spawns nothing and main
\* goes on, so that the end of the tracked Gofer is observed later; when it
\* is observed the tracker holds no Gofer; a StartGofer taken while no Gofer
\* is tracked spawns and tracks one.
C14_RejectThenRespawn ==
    [][/\ (Takes("StartGofer") /\ Tracked("Gofer") # {})
            => (SpawnsNothing /\ tracker' = tracker /\ core' = "running")
       /\ ObservedEnd(Gofer) => get_tracker_index(tracker', Gofer) = 0
       /\ (Takes("StartGofer") /\ Tracked("Gofer") = {})
            => (SpawnedNow(Gofer) /\ get_tracker_index(tracker', Gofer) # 0)]_vars

\* C15: a StartSoloAnnouncer for a Server whose identifier has no tracked
\* SoloAnnouncer spawns and tracks one when an Http is stored, whichever
\* other SoloAnnouncers are tracked; one for an identifier that is tracked
\* spawns nothing and leaves the tracker alone.
C15_SoloPerIdentifier ==
    [][Takes("StartSoloAnnouncer") =>
        LET server == Head(receiver).server
        IN  /\ (discord_http # 0 /\ TrackedSolo(server.identifier) = {})
                => /\ SpawnedNow(SoloAnnouncer(server))
                   /\ tracker' = Append(tracker, SoloAnnouncer(server))
            /\ TrackedSolo(server.identifier) # {}
                => (SpawnsNothing /\ tracker' = tracker)]_vars

\* SoloAnnouncers of two guilds are tracked and running at once.
C15_Witness ==
    /\ TrackedSolo("g1") # {} /\ TrackedSolo("g2") # {}
    /\ \E t, u \in Tasks :
        /\ t.worker.kind = "SoloAnnouncer" /\ t.state = "running"
        /\ u.worker.kind = "SoloAnnouncer" /\ u.state = "running"
        /\ t.worker.server.identifier # u.worker.server.identifier

\* The message branch has taken no message yet and no task was spawned.
NothingTaken ==
    /\ handles = EmptyBag
    /\ finished_handle = NoHandle
    /\ bots = 0

\* The message branch takes the oldest message of the channel.
TakesMessage ==
    /\ Looping /\ NoneFinished
    /\ receiver # <<>>
    /\ receiver' = Tail(receiver)

\* C24: the first message the loop of continuous mode takes is
\* StartGofer(true) and the second is StartDiscordBot: no other message is
\* taken before a connect_discord task has been spawned.
C24_BootTriggersFirst ==
    [][TakesMessage =>
          IF NothingTaken
          THEN Head(receiver) = StartGofer(TRUE)
          ELSE (bots = 0) => (Head(receiver) = StartDiscordBot)]_vars

\* The positions of execute_one_shot, in the order of its code.
OneShotOrder == <<"idle", "await_http", "await_gofer", "await_announcer", "disconnect", "ok">>
PositionOf(pc) == CHOOSE i \in 1..Len(OneShotOrder) : OneShotOrder[i] = pc

\* A task of `worker` that has ended is taken out of the JoinSet in this step.
JoinedNow(worker) ==
    \E t \in Tasks :
        /\ WorkerEq(t.worker, worker)
        /\ Finished(t)
        /\ CopiesIn(t, handles') < CopiesIn(t, handles)

\* C22: execute_one_shot moves through its positions one at a time and
\* never back, or returns an Err.  The connect_discord task is spawned
\* first; the Gofer is spawned in the step that takes TransferDiscordHttp
\* from the channel; the Announcer is spawned in the step that joins the
\* ended Gofer; disconnect_discord is called after the step that joins the
\* ended Announcer, and when it has returned main returns.  No task is
\* spawned in any other step, and once disconnect_discord is called main
\* does return.
C22_OneShotInOrder ==
    /\ [][/\ (one_shot' # one_shot)
               => \/ one_shot' = "err" /\ one_shot \notin {"ok", "disconnect"}
                  \/ /\ one_shot # "err" /\ one_shot' # "err"
                     /\ PositionOf(one_shot') = PositionOf(one_shot) + 1
          /\ (one_shot' = one_shot)
               => (BagCardinality(handles') <= BagCardinality(handles))
          /\ (one_shot = "idle" /\ one_shot' = "await_http")
               => (SpawnedNow(DiscordBot) /\ BagCardinality(handles') = 1)
          /\ (one_shot = "await_http" /\ one_shot' = "await_gofer")
               => /\ Head(receiver).type = "TransferDiscordHttp"
                  /\ discord_http = 0 /\ discord_http' = Head(receiver).http
                  /\ SpawnedNow(Gofer)
                  /\ BagCardinality(handles') = 2
          /\ (one_shot = "await_gofer" /\ one_shot' = "await_announcer")
               => /\ JoinedNow(Gofer)
                  /\ SpawnedNow(Announcer)
                  /\ \A t \in BagToSet(handles') : ~WorkerEq(t.worker, Gofer)
          /\ (one_shot = "await_announcer" /\ one_shot' = "disconnect")
               => /\ JoinedNow(Announcer)
                  /\ BagCardinality(handles') < BagCardinality(handles)
                  /\ ~disconnected'
          /\ (one_shot = "disconnect" /\ one_shot' = "ok")
               => (disconnected' /\ ~disconnected /\ core' = "exited")
          /\ (one_shot \in {"ok", "err"}) => UNCHANGED vars]_vars
    /\ [](disconnected => one_shot = "ok")
    /\ [](one_shot \in {"ok", "err"} <=> core # "running")
    /\ (one_shot = "disconnect") ~> (core = "exited")

\* One-shot mode has run to its end and main has returned Ok.
C22_Witness ==
    /\ one_shot = "ok"
    /\ core = "exited"
    /\ disconnected
    /\ discord_http = 1
    /\ finished_handle = <<Announcer, "ok">>

\* A connect_discord task has ended and is still in the JoinSet.
BotExited == \E t \in Tasks : t.worker = DiscordBot /\ Finished(t)

\* C23: in one-shot mode, when join_next hands out the Gofer or the
\* Announcer with an Err in its Handle, execute_one_shot returns an Err;
\* and while the connect_discord task has ended, execute_one_shot takes no
\* step but to return an Err.
C23_ErrorEndsOneShot ==
    /\ [](finished_handle \in {<<Gofer, "err">>, <<Announcer, "err">>} => one_shot = "err")
    /\ [][(BotExited /\ one_shot \notin {"idle", "ok", "err"})
             => one_shot' \in {one_shot, "err"}]_vars

(***************************************************************************)
(* Properties of the announce runs and of the saves (StoreSpec).           *)
(***************************************************************************)
Guilds == {Servers[k].guildId : k \in 1..Len(Servers)}
Watermark(tbl, g) == tbl[FirstRow(tbl, g)].lastAnnouncedAt
Flag(tbl, g) == tbl[FirstRow(tbl, g)].isAnnouncing

\* Run r takes a step of announce_for_server.
Steps(r) == r \in 1..Len(runs) /\ Len(runs') = Len(runs) /\ runs'[r] # runs[r]
\* Run r returns in this step.
RunEnds(r) == Steps(r) /\ runs'[r].pc \in Ended
\* The positions of a run between its set_announcing_server_flag(true) and
\* the return of its set_announcing_server_flag(false).
HoldsFlag == {"get_last", "select", "send", "set_last", "clear_flag"}
Holding(g) == {r \in 1..Len(runs) : runs[r].guild = g /\ runs[r].pc \in HoldsFlag}

\* C3: for every destination, at most one announce run is between setting
\* is_announcing to true and clearing it.
C3_OneRunHoldsTheFlag == \A g \in Guilds : Cardinality(Holding(g)) <= 1

\* C4: every announce run that passed the is_announcing check returns with
\* the destination's is_announcing flag false.
C4_FlagFalseAtEnd ==
    [][\A r \in 1..Len(runs) :
        (RunEnds(r) /\ runs[r].pc \in HoldsFlag) => ~Flag(Servers', runs[r].guild)]_vars

\* The rows of tbl with announcedAt in (last, t], each once, ascending in date.
IsEligibleInOrder(chapters, tbl, last, t) ==
    /\ \A x \in 1..Len(chapters) :
        /\ chapters[x] \in Range(tbl)
        /\ last < chapters[x].announcedAt
        /\ chapters[x].announcedAt <= t
    /\ \A k \in 1..Len(tbl) :
        (last < tbl[k].announcedAt /\ tbl[k].announcedAt <= t) => tbl[k] \in Range(chapters)
    /\ \A x, y \in 1..Len(chapters) :
        x < y => chapters[x] # chapters[y] /\ chapters[x].date <= chapters[y].date

\* C5, as stated: an announce run sends exactly the eligible chapters; a
\* run that got its chapters returns having sent every one of them.
C5_SendsEveryEligible ==
    [][\A r \in 1..Len(runs) :
        (RunEnds(r) /\ runs[r].pc \in {"send", "set_last", "clear_flag"})
            => runs[r].sent = Len(runs[r].chapters)]_vars

\* C5, amended: a run works with the watermark w it read and the time t of
\* its query; the chapters it goes on to send are exactly the persisted rows
\* with w < announced_at <= t, in ascending order of date; it sends them in
\* that order, one message each, and has sent all of them when it gets past
\* the sends, a prefix of them when a send fails.
C5_SendsEligibleInOrder ==
    [][\A r \in 1..Len(runs) : Steps(r) =>
        /\ (runs[r].pc = "get_last" /\ runs'[r].pc = "select")
                => runs'[r].last = Watermark(Servers, runs[r].guild)
        /\ (runs[r].pc = "select" /\ runs'[r].pc \in {"send", "clear_flag"})
                => /\ IsEligibleInOrder(runs'[r].chapters, Chapters, runs[r].last, now)
                   /\ runs'[r].sent = 0
        /\ (runs[r].pc = "send" /\ runs'[r].pc \notin Ended)
                => /\ runs'[r].chapters = runs[r].chapters
                   /\ runs'[r].sent = runs[r].sent + 1
        /\ (runs[r].pc = "send") => runs[r].sent < Len(runs[r].chapters)
        /\ (runs'[r].pc \in {"set_last", "clear_flag"})
                => runs'[r].sent = Len(runs'[r].chapters)]_vars

\* A run is about to write the watermark after sending two chapters whose
\* order by date is the reverse of their order in the table.
C5_Witness ==
    \E r \in 1..Len(runs) :
        /\ runs[r].pc = "set_last"
        /\ runs[r].sent = 2
        /\ runs[r].chapters[1].title = "t2"
        /\ runs[r].chapters[2].title = "t1"
        /\ Chapters[1].title = "t1"

\* C6, as stated: a run sets the watermark if and only if it sent at least
\* one chapter.  (Runs whose watermark write itself failed are left out.)
C6_SetIffOneSent ==
    [][\A r \in 1..Len(runs) :
        (RunEnds(r) /\ runs[r].pc \in {"send", "clear_flag"})
            => ((runs[r].pc = "clear_flag" /\ runs[r].chapters # <<>>)
                    <=> runs[r].sent >= 1)]_vars

\* C6, amended: a run sets the destination's watermark to the current time
\* if and only if it found at least one eligible chapter, sent every one of
\* them, and its watermark write succeeded; no other step of a run changes a
\* watermark, and a run that finds no eligible chapter goes on to clear the
\* flag without writing.
C6_SetIffAllSent ==
    [][\A r \in 1..Len(runs) : Steps(r) =>
        /\ (runs[r].pc = "set_last" /\ runs'[r].pc = "clear_flag")
                => Watermark(Servers', runs[r].guild) = now
        /\ ~(runs[r].pc = "set_last" /\ runs'[r].pc = "clear_flag")
                => \A g \in Guilds : Watermark(Servers', g) = Watermark(Servers, g)
        /\ (runs'[r].pc = "set_last")
                => runs'[r].sent = Len(runs'[r].chapters) /\ runs'[r].sent >= 1
        /\ (runs[r].pc = "send" /\ runs[r].sent + 1 = Len(runs[r].chapters)
                /\ runs'[r].pc \notin Ended)
                => runs'[r].pc = "set_last"
        /\ (runs[r].pc = "select" /\ runs'[r].pc = "clear_flag")
                => runs'[r].chapters = <<>>]_vars

\* A run has sent its chapters and moved the watermark from 0 to the
\* current time.
C6_Witness ==
    \E r \in 1..Len(runs) :
        /\ runs[r].pc = "clear_flag"
        /\ runs[r].sent >= 1
        /\ now >= 1
        /\ Watermark(Servers, runs[r].guild) = now

Triple(row) == <<row.manga, row.title, row.number>>
IsPrefix(s, t) == Len(s) <= Len(t) /\ SubSeq(t, 1, Len(s)) = s

\* C7: the Chapters table never holds two rows with the same (manga, title,
\* number), and a save leaves the rows already there as they are: a chapter
\* whose triple is present is not inserted again.
C7_OneRowPerTriple ==
    [][/\ \A i, j \in 1..Len(Chapters') :
            i # j => Triple(Chapters'[i]) # Triple(Chapters'[j])
       /\ IsPrefix(Chapters, Chapters')]_vars

\* A second save_chapters call returned Ok for chapters whose triple was
\* in the table with other values.
C7_Witness ==
    /\ saves = 2
    /\ saved.ok
    /\ \E x \in 1..Len(saved.chapters) :
        /\ saved.chapters[x] = ChA2
        /\ \E k \in 1..Len(Chapters) :
            Triple(Chapters[k]) = Triple(ChA2) /\ Chapters[k].url = ChA.url
    /\ Len(Chapters) = 2

\* C16: a run whose destination has is_announcing true returns at its
\* first step, with Ok (with an Err only if the read of the flag itself
\* fails): it never sets the flag, has sent nothing, and leaves the Servers
\* table (flag and watermark) as it is.
C16_SkipIsNoOp ==
    [][\A r \in 1..Len(runs) :
        (Steps(r) /\ runs[r].pc = "get_flag" /\ Flag(Servers, runs[r].guild))
            => /\ runs'[r].pc \in {"skipped", "err"}
               /\ runs'[r].sent = 0
               /\ Servers' = Servers]_vars

\* A run was skipped while another run for the same destination was between
\* setting the flag and clearing it.
C16_Witness ==
    \E r, q \in 1..Len(runs) :
        /\ runs[r].pc = "skipped"
        /\ runs[q].guild = runs[r].guild
        /\ runs[q].pc \in HoldsFlag
        /\ Flag(Servers, runs[r].guild)

\* C17: a send either succeeds, and the run has sent one more message, or
\* fails, and the run returns an Err there: it keeps the messages it has
\* sent, sends no further one and never writes the watermark.  (A run that
\* has returned takes no further step.)
C17_SendFailureEndsRun ==
    [][\A r \in 1..Len(runs) :
        /\ (Steps(r) /\ runs[r].pc = "send")
            => /\ \/ runs'[r].sent = runs[r].sent + 1 /\ runs'[r].pc \in {"send", "set_last"}
                  \/ runs'[r].sent = runs[r].sent /\ runs'[r].pc = "err"
               /\ Servers' = Servers
        /\ (runs[r].pc \in Ended /\ Len(runs') >= Len(runs)) => runs'[r] = runs[r]]_vars

\* The one save so far stored two chapters that become eligible together,
\* and a run has returned an Err after sending the first of them.
C17_Witness ==
    /\ saves = 1 /\ saved.ok /\ saved.chapters = <<ChB, ChA2>>
    /\ \E r \in 1..Len(runs) :
        /\ runs[r].pc = "err"
        /\ runs[r].sent = 1
        /\ Watermark(Servers, runs[r].guild) = 0

\* A step of run r of announce_for_server, whatever its outcome.
RunActs(r) ==
    GetFlag(r) \/ SetFlag(r) \/ GetLast(r) \/ Select(r) \/ Send(r) \/ SetLast(r) \/ ClearFlag(r)

\* C18: in an Announcer worker a step of one destination's run, a failing
\* one included, changes no other run and no other destination's row, and
\* every run that has not returned can take its next step whatever the
\* others did; the worker starts one run per row of Servers and returns
\* only when every one of them has returned.
C18_RunsAreIndependent ==
    /\ [][/\ \A r, q \in 1..Len(runs) :
               (Steps(r) /\ q # r) => (runs'[q] = runs[q])
          /\ \A r \in 1..Len(runs), k \in 1..Len(Servers) :
               (Steps(r) /\ Servers[k].guildId # runs[r].guild)
                   => (Servers'[k] = Servers[k])
          /\ (batch = "idle" /\ batch' = "running")
               => (\A k \in 1..Len(Servers) :
                     Cardinality({r \in 1..Len(runs') :
                         /\ runs'[r].kind = "Announcer"
                         /\ runs'[r].guild = Servers[k].guildId
                         /\ runs'[r].pc = "get_flag"}) = 1)
          /\ (batch = "running" /\ batch' = "idle")
               => (\A r \in 1..Len(runs) :
                     (runs[r].kind = "Announcer") => (runs[r].pc \in Ended))]_vars
    /\ [](\A r \in 1..Len(runs) : (runs[r].pc \notin Ended) => ENABLED RunActs(r))

\* One destination's run has returned an Err and the other destination's
\* run has gone on and sent its chapters, the worker still waiting.
C18_Witness ==
    /\ batch = "running"
    /\ \E r, q \in 1..Len(runs) :
        /\ runs[r].guild # runs[q].guild
        /\ runs[r].pc = "err"
        /\ runs[q].pc = "ok"
        /\ runs[q].sent >= 1

C20_SaveBudget ==
    /\ [](saves <= 5)
    /\ [][/\ (saves' # saves)
               => /\ gofer.pc = "save" /\ gofer.some
                  /\ saves' = saves + 1
                  /\ saved'.chapters = gofer.chapters
                  /\ gofer'.pc = IF saved'.ok \/ saves' = 5 THEN "ok" ELSE "save"
          /\ (gofer.pc = "ok") => (gofer' = gofer /\ Chapters' = Chapters)]_vars
    /\ [](gofer.pc = "save" => ENABLED RunGoferSave)
    /\ []((gofer.pc = "ok" /\ gofer.some) => (saves >= 1 /\ (saved.ok \/ saves = 5)))

\* The Gofer has returned after a second save_chapters call that returned
\* Ok without inserting a row: both triples were in the table before.
C20_Witness ==
    /\ gofer.pc = "ok"
    /\ saves = 2
    /\ saved.ok
    /\ saved.chapters = <<ChA, ChA2>>
    /\ Len(Chapters) = 2

\* C21: dispatch_gofers spawns one run_gofer task per target.  It sends
\* GoferFinished once, and only when every one of these tasks has returned,
\* whatever they did; once the tasks are spawned the message is eventually
\* sent.  A step of one task changes no other task, and a task that has
\* not returned can take its next step whatever the others did.
C21_FinishedOnceAfterAll ==
    /\ [](Len(finished) <= 1)
    /\ [][/\ (dispatch.pc = "idle" /\ dispatch'.pc # "idle")
               => (/\ Len(gofers') = Len(Targets)
                   /\ \A k \in 1..Len(Targets) : gofers'[k].pc = "fetch")
          /\ (finished' # finished)
               => (/\ Len(finished') = Len(finished) + 1
                   /\ \A k \in 1..Len(Targets) : gofers[k].pc = "ok"
                   /\ dispatch'.pc = "ok")
          /\ \A k, j \in 1..Len(gofers) :
               ((GoferFetch(k) \/ GoferSave(k)) /\ j # k) => (gofers'[j] = gofers[j])]_vars
    /\ [](\A k \in 1..Len(gofers) :
            (gofers[k].pc # "ok") => ENABLED (GoferFetch(k) \/ GoferSave(k)))
    /\ [](dispatch.pc = "ok" => Len(finished) = 1)
    /\ (dispatch.pc = "await") ~> (Len(finished) = 1)

\* GoferFinished was sent after the first target's task had failed all its
\* fetches while the task spawned after it had saved its chapters, after a
\* save of its own that had failed.
C21_Witness ==
    /\ Len(finished) = 1
    /\ gofers[1].pc = "ok" /\ ~gofers[1].some /\ gofers[1].fetches = 5
    /\ gofers[2].pc = "ok" /\ gofers[2].some /\ gofers[2].chapters = <<ChB, ChA2>>
    /\ saves = 2
    /\ saved.ok
    /\ \E x \in 1..Len(Chapters) : Triple(Chapters[x]) = Triple(ChB)

(***************************************************************************)
(* Properties of the parsers (ParseSpec).                                  *)
(***************************************************************************)
Flipped(tgt) == [tgt EXCEPT !.ascending_source = ~@]
NewestFirst(chapters) ==
    \A i, j \in 1..Len(chapters) : i < j => chapters[i].date >= chapters[j].date
OldestFirst(chapters) ==
    \A i, j \in 1..Len(chapters) : i < j => chapters[i].date <= chapters[j].date

\* C26: for each of the three parsers and every document, what the parser
\* gives for a target with ascending_source = false is the exact reverse of
\* what it gives for the same target with ascending_source = true (and it
\* fails for the one when it fails for the other); so a document that lists
\* its chapters newest first comes out oldest first with
\* ascending_source = false.
C26_ReversedBySourceOrder ==
    parse_result # NotParsed =>
        LET other == Parse(Flipped(target), source, now)
        IN  /\ parse_result.status = other.status
            /\ parse_result.chapters = Reverse(other.chapters)
            /\ (~target.ascending_source /\ NewestFirst(other.chapters))
                    => OldestFirst(parse_result.chapters)

\* The feed of the test of rss.rs: 00024 listed before the older 00023.
C26_Witness ==
    /\ target.mode = "Rss" /\ ~target.ascending_source /\ target.base_url = Some(BaseUrl)
    /\ Len(source.entries) = 2
    /\ source.entries[1].id = "00024" /\ source.entries[2].id = "00023"
    /\ parse_result.status = "ok"
    /\ parse_result.chapters[1].number = "00023"
    /\ parse_result.chapters[1].url = "https://comic.test/ep/23"
    /\ parse_result.chapters[2].number = "00024"
    /\ parse_result.chapters[1].date < parse_result.chapters[2].date

\* An element has a value at the dot-path of a skip-condition, and it is the
\* skip value.
Matches(skip, element) ==
    \E condition \in skip :
        condition[1] \in DOMAIN element /\ element[condition[1]] = condition[2]
Kept(skip, elements) == SelectSeq(elements, LAMBDA element : ~Matches(skip, element))
InSourceOrder(tgt, chapters) == IF tgt.ascending_source THEN chapters ELSE Reverse(chapters)

\* C27: what parse_json returns holds no chapter made from an element that
\* has, at the dot-path of a skip-condition, the skip value; every element
\* that matches no skip-condition, the elements without the dot-path among
\* them, has its chapter in it: the chapters returned are those of the
\* elements that match no skip-condition, one each, in the order of the
\* document.  A skipped element is not read any further: a call that fails
\* fails on the document or on an element that matches no skip-condition.
C27_SkipConditions ==
    (target.mode = "Json" /\ parse_result # NotParsed) =>
        LET kept == Kept(target.keys.skip, source.elements)
        IN  /\ parse_result.status = "ok" =>
                InSourceOrder(target, parse_result.chapters) =
                    [i \in 1..Len(kept) |-> JsonChapter(target, kept[i]).chapter]
            /\ parse_result.status # "ok" =>
                \/ ~source.valid
                \/ source.chapters # "array"
                \/ \E i \in 1..Len(kept) : JsonChapter(target, kept[i]).status # "ok"

\* Three elements: one with "readable": false and no title, one with
\* "readable": "false", one without "readable"; the last two are returned.
C27_Witness ==
    /\ target.mode = "Json" /\ target.ascending_source
    /\ Len(source.elements) = 3
    /\ "title" \notin DOMAIN source.elements[1]
    /\ Matches(target.keys.skip, source.elements[1])
    /\ "readable" \in DOMAIN source.elements[2]
    /\ "readable" \notin DOMAIN source.elements[3]
    /\ parse_result.status = "ok"
    /\ Len(parse_result.chapters) = 2
    /\ parse_result.chapters[1].number = "23"
    /\ parse_result.chapters[1].title = "23 The Alpha"
    /\ parse_result.chapters[2].number = "25"

DelayDays(tgt) == IF tgt.delay = NoDelay THEN 0 ELSE tgt.delay

\* C28: every chapter parse_json or parse_html returns has
\* announced_at = date + the delay of its target in days, and
\* announced_at = date when the delay is 0 or not set.
C28_AnnouncedAfterDelay ==
    (target.mode \in {"Json", "Html"} /\ parse_result.status = "ok") =>
        \A i \in 1..Len(parse_result.chapters) :
            LET chapter == parse_result.chapters[i]
            IN  /\ chapter.announced_at - chapter.date = DelayDays(target)
                /\ target.delay \in {NoDelay, 0} => chapter.announced_at = chapter.date

\* parse_html with a delay of one day: a chapter dated day 1 is announced
\* on day 2.
C28_Witness ==
    /\ target.mode = "Html" /\ target.delay = 1
    /\ parse_result.status = "ok"
    /\ Len(parse_result.chapters) = 2
    /\ parse_result.chapters[1].date = 1
    /\ parse_result.chapters[1].announced_at = 2

\* The element has what a field is read from: the sub-element of the tag
\* (when a tag is set) and on it the attribute (when an attribute is set).
Has(element, tag, attribute) ==
    /\ tag # None => tag[1] \in DOMAIN element.subs
    /\ attribute # None =>
            attribute[1] \in DOMAIN (IF tag = None THEN element.attrs
                                     ELSE element.subs[tag[1]].attrs)
DateText(element, tags) ==
    IF tags.date_attribute = None
    THEN (IF tags.date_tag = None THEN element.text ELSE element.subs[tags.date_tag[1]].text)
    ELSE (IF tags.date_tag = None THEN element.attrs
          ELSE element.subs[tags.date_tag[1]].attrs)[tags.date_attribute[1]]
\* number, title, date and url of the element can be resolved.
Resolves(tags, element) ==
    /\ Has(element, tags.number_tag, tags.number_attribute)
    /\ Has(element, tags.title_tag, tags.title_attribute)
    /\ Has(element, tags.url_tag, tags.url_attribute)
    /\ (tags.date_tag # None \/ tags.date_attribute # None) =>
            /\ Has(element, tags.date_tag, tags.date_attribute)
            /\ DateText(element, tags) \in (DOMAIN NaiveDates \cup DOMAIN NaiveDateTimes)

\* C29: parse_html leaves out every selected element of which the number,
\* the title, the date or the url cannot be resolved (a sub-element or an
\* attribute is absent, the date text is no date) and returns the chapters
\* of the other elements, in the order of the document: such an element
\* never makes the call return an Err.  (The call ends otherwise only by
\* the panic of make_link, on an element whose four fields were resolved.)
C29_UnresolvedLeftOut ==
    (target.mode = "Html" /\ parse_result # NotParsed) =>
        LET resolved == SelectSeq(source.elements,
                                  LAMBDA element : Resolves(target.tags, element))
        IN  /\ parse_result.status # "err"
            /\ parse_result.status = "ok" =>
                InSourceOrder(target, parse_result.chapters) =
                    [i \in 1..Len(resolved) |->
                        assemble_chapter(target, resolved[i], now).chapter]
            /\ parse_result.status = "panic" =>
                \E i \in 1..Len(resolved) :
                    assemble_chapter(target, resolved[i], now).status = "panic"

\* An element without its a, one whose date text is no date and one that
\* is complete: the call succeeds with the chapter of the third.
C29_Witness ==
    /\ target.mode = "Html" /\ target.tags.date_tag # None
    /\ Len(source.elements) = 3
    /\ "a" \notin DOMAIN source.elements[1].subs
    /\ source.elements[2].subs["time"].attrs["datetime"] = "soon"
    /\ Resolves(target.tags, source.elements[3])
    /\ parse_result.status = "ok"
    /\ Len(parse_result.chapters) = 1

\* C30: when the document is valid JSON with an array at the chapters
\* dot-path, parse_json succeeds, and it returns the chapters of the
\* elements that were not skipped and from which number, title, date and url
\* could be extracted: an element with a missing dot-path, a value of the
\* wrong JSON type or a date text that is no date is left out, and only that
\* element.  (base_url is not set, so that make_link is not called.)
C30_ElementFailureSkipsElement ==
    (/\ target.mode = "Json" /\ parse_result # NotParsed
     /\ source.valid /\ source.chapters = "array"
     /\ target.base_url = None) =>
        LET extracted == SelectSeq(source.elements,
                            LAMBDA element : JsonChapter(target, element).status = "ok")
        IN  /\ parse_result.status = "ok"
            /\ InSourceOrder(target, parse_result.chapters) =
                    [i \in 1..Len(extracted) |-> JsonChapter(target, extracted[i]).chapter]

(***************************************************************************)
(* Properties of a fetch followed by an Announcer (EndToEndSpec).          *)
(***************************************************************************)
Numbers(chapters) == [i \in 1..Len(chapters) |-> chapters[i].number]
BothSaved == Numbers(Chapters) = <<"00023", "00024">>
\* The run moves from one position to another in this step.
Moves(r, from, to) == runs[r].pc = from /\ runs'[r].pc = to
\* The write of the watermark stores the time of the write.
SetsWatermarkToNow ==
    \A r \in 1..Len(runs) :
        Moves(r, "set_last", "clear_flag") =>
            Servers'[FirstRow(Servers', runs[r].guild)].lastAnnouncedAt = now

\* The run r selects in this step (the SELECT did not fail), with both
\* chapters of the feed saved and their announcement times reached.
SelectsWithBothDue(r) ==
    /\ runs[r].pc = "select" /\ runs'[r].pc \notin {"select", "err"}
    /\ BothSaved
    /\ \A k \in 1..Len(Chapters) : Chapters[k].announcedAt <= now

\* C25, as stated: with both chapters of the feed saved by the fetch and
\* their announcement times reached, an announce run for the destination,
\* whose watermark no run has written yet, gets both chapters, 00023 before
\* 00024, and goes on to send them; when it returns Ok it has sent all it
\* got, and the write of the watermark stored the current time.
C25_DeliversBoth ==
    [][/\ SetsWatermarkToNow
       /\ \A r \in 1..Len(runs) :
            /\ SelectsWithBothDue(r) =>
                    /\ runs'[r].pc = "send"
                    /\ Numbers(runs'[r].chapters) = <<"00023", "00024">>
            /\ Moves(r, "clear_flag", "ok") => runs[r].sent = Len(runs[r].chapters)]_vars

\* C25, amended: the watermark of a destination that no run has written
\* yet is the time at which its feed channel was set.  With both chapters
\* of the feed saved and their announcement times reached, a run that read
\* a watermark earlier than both announcement times gets both chapters,
\* 00023 before 00024, and goes on to send them; when it returns Ok it has
\* sent all it selected, and the write of the watermark stored the current
\* time.
C25_DeliversBothAfterWatermark ==
    [][/\ SetsWatermarkToNow
       /\ \A r \in 1..Len(runs) :
            /\ (/\ SelectsWithBothDue(r)
                 /\ \A k \in 1..Len(Chapters) : runs[r].last < Chapters[k].announcedAt)
                => /\ runs'[r].pc = "send"
                   /\ Numbers(runs'[r].chapters) = <<"00023", "00024">>
            /\ Moves(r, "clear_flag", "ok") => runs[r].sent = Len(runs[r].chapters)]_vars

\* The feed channel was set at time 0, the run has returned Ok at time 2
\* after it sent both chapters, and the watermark is 2.
C25_Witness ==
    /\ BothSaved
    /\ Chapters[1].url = "https://comic.test/ep/23"
    /\ Chapters[1].announcedAt = 1 /\ Chapters[2].announcedAt = 2
    /\ now = 2
    /\ \E r \in 1..Len(runs) :
        /\ runs[r].pc = "ok" /\ runs[r].sent = 2
        /\ Servers[FirstRow(Servers, runs[r].guild)].lastAnnouncedAt = 2

(***************************************************************************)
(* Properties of a Gofer with its parser (AttemptSpec).                    *)
(***************************************************************************)
\* The document has no chapters array at the chapters dot-path (JSON), no
\* element that the chapters selector matches (HTML), or is no feed (RSS).
Structural(tgt, src) ==
    \/ tgt.mode = "Json" /\ src.valid /\ src.chapters # "array"
    \/ tgt.mode = "Html" /\ src.elements = <<>>
    \/ tgt.mode = "Rss" /\ ~src.valid

\* C31: a fetch attempt whose document has such a structural error is a
\* failed attempt: it uses up one attempt of the budget, the Gofer has no
\* chapters from it, and the Gofer goes on to its next attempt or, with the
\* budget used up, returns.
C31_StructuralErrorFailsAttempt ==
    [][(gofer.pc = "fetch" /\ gofer' # gofer /\ Structural(target, source)) =>
            /\ gofer'.attempts = gofer.attempts - 1
            /\ ~gofer'.some
            /\ gofer'.pc \in {"fetch", "ok"}]_vars

(***************************************************************************)
(* Properties of the tracker and the stored handle (checked under Spec).   *)
(***************************************************************************)
WorkerIdentities ==
    {Gofer, Announcer, DiscordBot} \cup {SoloAnnouncer(s) : s \in ServerValues}

\* C32: while the loop runs, a worker identity is in the tracker exactly
\* while a task of that identity has been spawned whose completion the loop
\* has not yet observed.
C32_TrackedWhileUnobserved ==
    Looping =>
        \A w \in WorkerIdentities :
            (get_tracker_index(tracker, w) # 0) <=> (\E t \in Tasks : WorkerEq(t.worker, w))

\* C36: while the loop runs, a stored Discord handle means a tracked
\* DiscordBot: a TransferDiscordHttp message of a bot whose end the loop has
\* already observed leaves no handle stored without a tracked DiscordBot.
C36_HandleImpliesBotTracked ==
    (Looping /\ discord_http # 0) => get_tracker_index(tracker, DiscordBot) # 0

(***************************************************************************)
(* Properties of the chapter rows (checked under StoreSpec).               *)
(***************************************************************************)
\* C33: no step changes or deletes a chapter row that is in the table: not
\* a later save of the same (manga, title, number) with another url, date
\* or announcement time, and not an announce run.
C33_PersistedRowsUnchanged ==
    [][/\ Len(Chapters') >= Len(Chapters)
       /\ \A k \in 1..Len(Chapters) : Chapters'[k] = Chapters[k]]_vars

\* A later save brought ChA2 after ChA had been saved: the row is ChA's.
C33_Witness ==
    /\ saved = [chapters |-> <<ChB, ChA2>>, ok |-> TRUE]
    /\ \E k \in 1..Len(Chapters) :
          Chapters[k].title = ChA.title /\ Chapters[k].url = ChA.url
    /\ \A k \in 1..Len(Chapters) : Chapters[k].url # ChA2.url
    /\ \E r \in 1..Len(runs) : runs[r].sent > 0

(***************************************************************************)
(* Properties of the messages sent (DeliverySpec, CatchUpSpec).            *)
(***************************************************************************)
\* C35: a chapter that was sent to a guild's feed channel is not sent to
\* that guild again: no send_message that returns Ok is for a chapter whose
\* message is already in the channel.
C35_SentOnce ==
    [][\A r \in 1..Len(runs) :
          Sends(r) => Key(runs[r].guild, runs[r].chapters[runs[r].sent + 1]) \notin delivered]_vars

\* The chapter is in the table, announced after the guild's watermark, and
\* its announcement time has been reached.
Due(guild, ch) ==
    /\ \E k \in 1..Len(Chapters) : Chapters[k] = ChapterRow(ch, Chapters[k].loggedAt)
    /\ \E k \in RowsOf(Servers, guild) : ch.announced_at > Servers[k].lastAnnouncedAt
    /\ ch.announced_at <= now

\* C34: with Announcer workers started again and again and no call failing,
\* every chapter that is in the table with an announcement time after the
\* guild's watermark is sent to the guild once that time has been reached,
\* also when it was saved while a run was between its SELECT and its
\* watermark write.
C34_PersistedIsDelivered ==
    \A ch \in {ChA, ChA2, ChB} :
        [](Due("g1", ch) => <>(Key("g1", ch) \in delivered))

(***************************************************************************)
(* Properties of the Servers table (FeedChannelSpec, RestartSpec,          *)
(* WatermarkSpec).                                                         *)
(***************************************************************************)
\* C37: whatever the interleaving of set_feed_channel calls, the Servers
\* table has at most one row per guild, and so the runs of one Announcer
\* worker are at most one per guild.
C37_OneRowPerIdentifier ==
    \A g \in {"g1"} :
        /\ Cardinality(RowsOf(Servers, g)) <= 1
        /\ Cardinality({r \in 1..Len(runs) :
                           runs[r].kind = "Announcer" /\ runs[r].guild = g}) <= 1

\* C38: a flag that a cancelled run left set does not outlast the restart:
\* while the process runs and no run for the guild is under way, the
\* guild's isAnnouncing is 0, so the next run for it is not skipped.
C38_NotBlockedWithoutRun ==
    core = "running" =>
        \A k \in 1..Len(Servers) :
            Servers[k].isAnnouncing =>
                \E r \in 1..Len(runs) :
                    runs[r].guild = Servers[k].guildId /\ runs[r].pc \notin Ended

\* C39: no step lowers the watermark of a Servers row: every write of
\* lastAnnouncedAt stores a time at or after the one it replaces, whatever
\* the interleaving of the runs for the guild and of the feed channel
\* commands.
C39_WatermarkNeverDecreases ==
    [][/\ Len(Servers') >= Len(Servers)
       /\ \A k \in 1..Len(Servers) :
             Servers'[k].lastAnnouncedAt >= Servers[k].lastAnnouncedAt]_vars

====
